---- MODULE Spec2Model ----
(***************************************************************************)
(* Model of the rooms/students load-and-query pipeline:                    *)
(*   src/db_manager.py      DbManager, one sqlite3 connection              *)
(*   src/runtime_handler.py handle_db_operation                            *)
(*   src/main.py            main, the pipeline                             *)
(* The sqlite3 connection is modelled by what the manager's statements do  *)
(* to it: the rows and indexes the connection sees, whether a transaction  *)
(* is open, and the committed content a rollback returns to.               *)
(***************************************************************************)
EXTENDS Integers, Sequences, FiniteSets, TLC

VARIABLES db, idIsRowid, call, run

vars == <<db, idIsRowid, call, run>>

(***************************************************************************)
(* Bounds and value domains                                                *)
(***************************************************************************)
\* longest batch handed to insert_rooms / insert_students
MaxBatch == 2

\* Largest integer sqlite3 binds to an INTEGER parameter (2^63 - 1 in the
\* library), scaled down: binding a larger Python int raises OverflowError,
\* which is not an sqlite3.Error.
Int64Max == 2

Storable(id) == id <= Int64Max

\* Room tuples (id, name)
Room(i, n) == [id |-> i, name |-> n]

RoomRows == {Room(1, "A"), Room(1, "B"), Room(2, "A"), Room(Int64Max + 1, "A")}

\* Student tuples (id, name, birthday, sex, room)
Student(i, n, b, s, r) == [id |-> i, name |-> n, birthday |-> b, sex |-> s, room |-> r]

\* Birthdays are day numbers (what JULIANDAY makes of the ISO text), counted
\* from the oldest birthday of the unit tests.
StudentRows ==
    {Student(1, "Frank", 0, "M", 1), Student(1, "Grace", 762, "F", 1),
     Student(2, "Grace", 762, "F", 1), Student(Int64Max + 1, "Frank", 0, "M", 2)}

Batches(S) == UNION {[1..n -> S] : n \in 0..MaxBatch}

IndexNames == {"idx_students_room", "idx_students_birthday"}

\* the column each secondary index is built on
IndexColumn(n) == IF n = "idx_students_room" THEN "room" ELSE "birthday"

Ids(rows) == {rows[k].id : k \in 1..Len(rows)}

\* some id of the batch is already in the table, or occurs twice in the batch
HasDuplicate(table, batch) ==
    \/ \E k \in 1..Len(batch) : batch[k].id \in Ids(table)
    \/ \E j, k \in 1..Len(batch) : j # k /\ batch[j].id = batch[k].id

(***************************************************************************)
(* The store as one connection sees it                                     *)
(***************************************************************************)
Content(r, s, ix) == [rooms |-> r, students |-> s, indexes |-> ix]

EmptyContent == Content(<<>>, <<>>, {})

\* what the connection reads: committed rows plus its own uncommitted changes
View(d) == Content(d.rooms, d.students, d.indexes)

\* what is committed in the store: what a rollback, or closing, returns to
Committed(d) == d.saved

Store(c) ==
    [rooms |-> c.rooms, students |-> c.students, indexes |-> c.indexes,
     inTx |-> FALSE, saved |-> c]

\* Room.id and Student.id are unique within their table: an INSERT of a row
\* whose id is in the table fails with IntegrityError
UniqueViolation(table, row) == row.id \in Ids(table)

(***************************************************************************)
(* Statements on the connection.  Each returns the connection after it,    *)
(* what it raised ("none", "Error" for an sqlite3.Error, "Exception" for   *)
(* any other exception) and the rows its cursor holds.                     *)
(***************************************************************************)
Step(d, e, rows) == [db |-> d, err |-> e, rows |-> rows]

\* connection.execute("BEGIN TRANSACTION"): sqlite refuses a BEGIN inside an
\* open transaction with OperationalError
Begin(d) ==
    IF d.inTx
    THEN Step(d, "Error", <<>>)
    ELSE Step([d EXCEPT !.inTx = TRUE, !.saved = View(d)], "none", <<>>)

\* connection.commit()
Commit(d) == Step([d EXCEPT !.inTx = FALSE, !.saved = View(d)], "none", <<>>)

\* connection.rollback(): back to the committed content
Rollback(d) ==
    [d EXCEPT !.rooms = d.saved.rooms, !.students = d.saved.students,
              !.indexes = d.saved.indexes, !.inTx = FALSE]

\* cursor.executemany("INSERT INTO <table> ... VALUES (?, ...)", batch): one
\* INSERT per row, in order.  Binding an id outside the 64-bit range raises
\* OverflowError; a row whose id is in the table raises IntegrityError.  The
\* rows inserted before the failing one stay in the open transaction.
RECURSIVE InsertRows(_, _)
InsertRows(table, batch) ==
    IF batch = <<>>
    THEN [rows |-> table, err |-> "none"]
    ELSE LET row == Head(batch)
         IN  IF ~Storable(row.id)
             THEN [rows |-> table, err |-> "Exception"]
             ELSE IF UniqueViolation(table, row)
             THEN [rows |-> table, err |-> "Error"]
             ELSE InsertRows(Append(table, row), Tail(batch))

\* rows of a table in ascending id (insertion sort on the id column)
RECURSIVE SortById(_)
SortById(rows) ==
    IF rows = <<>>
    THEN <<>>
    ELSE LET rest == SortById(Tail(rows))
             r == Head(rows)
             lower == SelectSeq(rest, LAMBDA x : x.id < r.id)
             upper == SelectSeq(rest, LAMBDA x : ~(x.id < r.id))
         IN  lower \o <<r>> \o upper

\* Order of a full-table scan without ORDER BY: by rowid.  When id is the
\* table's INTEGER PRIMARY KEY it is the rowid, and the scan is in ascending
\* id; otherwise the rowid grows with insertion and the scan is in insertion
\* order.
Scan(rows) == IF idIsRowid THEN SortById(rows) ELSE rows

\* Statement descriptors
Stmt(kind, arg) == [kind |-> kind, arg |-> arg]

Query(kind, table, row) == [kind |-> kind, table |-> table, row |-> row]

\* The statements execute_query and fetch_all are given: the single-row
\* INSERTs and full-table SELECTs of the unit tests, "INVALID SQL QUERY",
\* and an argument that is not a string (cursor.execute raises TypeError).
Queries ==
    {Query("select", "Rooms", <<>>), Query("select", "Students", <<>>),
     Query("insert", "Rooms", Room(1, "A")), Query("insert", "Rooms", Room(2, "A")),
     Query("insert", "Students", Student(1, "Frank", 0, "M", 1)),
     Query("invalid", "", <<>>), Query("nonstr", "", <<>>)}

\* cursor.execute(query) for the statements of Queries
ExecSql(d, q) ==
    CASE q.kind = "nonstr" -> Step(d, "Exception", <<>>)
      [] q.kind = "invalid" -> Step(d, "Error", <<>>)
      [] q.kind = "select" ->
            Step(d, "none", Scan(IF q.table = "Rooms" THEN d.rooms ELSE d.students))
      [] q.kind = "insert" ->
            LET table == IF q.table = "Rooms" THEN d.rooms ELSE d.students
                r == InsertRows(table, <<q.row>>)
            IN  Step(IF q.table = "Rooms" THEN [d EXCEPT !.rooms = r.rows]
                                          ELSE [d EXCEPT !.students = r.rows],
                     r.err, <<>>)

(***************************************************************************)
(* The four fixed queries, computed as their SQL computes them             *)
(***************************************************************************)
\* room names in the order of the BINARY collation GROUP BY Rooms.name uses
NameOrder == <<"A", "B", "C", "D", "E", "F", "G">>

\* GROUP BY Rooms.name: one group per distinct room name, in ascending name
Groups(d) ==
    SelectSeq(NameOrder, LAMBDA n : \E k \in 1..Len(d.rooms) : d.rooms[k].name = n)

Members_keeps_unmatched_students(d, n) ==
    {k \in 1..Len(d.students) :
        \/ \E j \in 1..Len(d.rooms) :
               d.rooms[j].name = n /\ d.rooms[j].id = d.students[k].room
        \/ \A j \in 1..Len(d.rooms) : d.rooms[j].id # d.students[k].room}

\* ... JOIN Students ON Rooms.id = Students.room: the student rows of a group
Members(d, n) ==
    {k \in 1..Len(d.students) :
        \E j \in 1..Len(d.rooms) :
            d.rooms[j].name = n /\ d.rooms[j].id = d.students[k].room}

\* JULIANDAY('now') - JULIANDAY(Students.birthday), in days
AgeDays(d, k, now) == now - d.students[k].birthday

RECURSIVE SumAges(_, _, _)
SumAges(d, ks, now) ==
    IF ks = {}
    THEN 0
    ELSE LET k == CHOOSE x \in ks : TRUE
         IN  AgeDays(d, k, now) + SumAges(d, ks \ {k}, now)

MaxAge(d, ks, now) == CHOOSE a \in {AgeDays(d, k, now) : k \in ks} :
                          \A k \in ks : AgeDays(d, k, now) <= a

MinAge(d, ks, now) == CHOOSE a \in {AgeDays(d, k, now) : k \in ks} :
                          \A k \in ks : a <= AgeDays(d, k, now)

\* a / b rounded to the nearest integer, halves away from zero (b > 0)
RoundDiv(a, b) ==
    IF a >= 0 THEN (2 * a + b) \div (2 * b) ELSE -((2 * (-a) + b) \div (2 * b))

\* ROUND(days / 365.25 / count, 3), in thousandths of a year
Years3(days, count) == RoundDiv(4000 * days, 1461 * count)

\* sqlite computes '/' and '-' on REAL values in IEEE 754 binary floating
\* point, every result rounded to the significand (53 bits in binary64).  The
\* model keeps the arithmetic and shortens the significand, so that the
\* numbers stay within TLC's integers.
SignificandBits == 19

\* a REAL number of years is held as a count of the quantum of [1, 2)
Unit == 2 ^ (SignificandBits - 1)

\* 2^e for the binade [2^e, 2^(e+1)) that num / den is in (1 below it)
RECURSIVE Binade(_, _)
Binade(num, den) == IF num < 2 * den THEN 1 ELSE 2 * Binade(num, 2 * den)

\* a / b rounded to the nearest integer, halves to the even one
RoundHalfEven(a, b) ==
    IF 2 * (a % b) > b \/ (2 * (a % b) = b /\ (a \div b) % 2 = 1)
    THEN (a \div b) + 1
    ELSE a \div b

\* days / 365.25: the quotient, rounded to the significand
YearsOf(days) ==
    RoundHalfEven(4 * days * (Unit \div Binade(4 * days, 1461)), 1461)
        * Binade(4 * days, 1461)

\* x - y of two REAL values (x >= y), rounded to the significand
Difference(x, y) == RoundHalfEven(x - y, Binade(x - y, Unit)) * Binade(x - y, Unit)

\* ROUND(x, 3), in thousandths
Round3(x) == 1000 * (x \div Unit) + RoundDiv(1000 * (x % Unit), Unit)

\* ORDER BY <column 2>: stable insertion sort, ascending
RECURSIVE SortAsc(_)
SortAsc(rows) ==
    IF rows = <<>>
    THEN <<>>
    ELSE LET r == Head(rows)
             rest == SortAsc(Tail(rows))
         IN  SelectSeq(rest, LAMBDA x : x[2] < r[2]) \o <<r>>
                 \o SelectSeq(rest, LAMBDA x : ~(x[2] < r[2]))

Reverse(rows) == [k \in 1..Len(rows) |-> rows[Len(rows) + 1 - k]]

\* ORDER BY <column 2> DESC: sqlite's sorter gives the ascending order
\* backwards, rows of equal value in descending name
SortDesc(rows) == Reverse(SortAsc(rows))

\* LIMIT n
Limit(rows, n) == SubSeq(rows, 1, IF Len(rows) < n THEN Len(rows) ELSE n)

TopN == 5

\* SELECT Rooms.name, COUNT(Students.id) ... LEFT JOIN ... GROUP BY Rooms.name
\* ORDER BY students_count DESC
Task1Rows(d) ==
    LET gs == Groups(d)
    IN  SortDesc([k \in 1..Len(gs) |-> <<gs[k], Cardinality(Members(d, gs[k]))>>])

\* SELECT Rooms.name, ROUND(AVG(age) / 365.25, 3) ... LEFT JOIN ... GROUP BY
\* Rooms.name HAVING avg IS NOT NULL ORDER BY avg LIMIT 5
Task2Rows(d, now) ==
    LET gs == SelectSeq(Groups(d), LAMBDA n : Members(d, n) # {})
        row(n) == <<n, Years3(SumAges(d, Members(d, n), now), Cardinality(Members(d, n)))>>
    IN  Limit(SortAsc([k \in 1..Len(gs) |-> row(gs[k])]), TopN)

\* SELECT Rooms.name, ROUND(MAX(age) / 365.25 - MIN(age) / 365.25, 3) ...
\* JOIN ... GROUP BY Rooms.name ORDER BY age_difference DESC LIMIT 5; both
\* ages of a group are divided by 365.25 before they are subtracted
Task3Rows(d, now) ==
    LET gs == SelectSeq(Groups(d), LAMBDA n : Members(d, n) # {})
        row(n) == <<n, CHOOSE spread \in
                           {Round3(Difference(YearsOf(oldest), YearsOf(youngest))) :
                               oldest \in {MaxAge(d, Members(d, n), now)},
                               youngest \in {MinAge(d, Members(d, n), now)}} : TRUE>>
    IN  Limit(SortDesc([k \in 1..Len(gs) |-> row(gs[k])]), TopN)

\* SELECT Rooms.name ... LEFT JOIN ... GROUP BY Rooms.name
\* HAVING COUNT(DISTINCT Students.sex) > 1: rows of one field
Task4Rows(d) ==
    LET mixed(n) == Cardinality({d.students[k].sex : k \in Members(d, n)}) > 1
        gs == SelectSeq(Groups(d), mixed)
    IN  [k \in 1..Len(gs) |-> <<gs[k]>>]

\* one statement of a manager method
Exec(d, s) ==
    CASE s.kind = "BEGIN" -> Begin(d)
      [] s.kind = "COMMIT" -> Commit(d)
      [] s.kind = "INSERT_ROOMS" ->
            LET r == InsertRows(d.rooms, s.arg)
            IN  Step([d EXCEPT !.rooms = r.rows], r.err, <<>>)
      [] s.kind = "INSERT_STUDENTS" ->
            LET r == InsertRows(d.students, s.arg)
            IN  Step([d EXCEPT !.students = r.rows], r.err, <<>>)
      [] s.kind = "DELETE_STUDENTS" -> Step([d EXCEPT !.students = <<>>], "none", <<>>)
      [] s.kind = "DELETE_ROOMS" -> Step([d EXCEPT !.rooms = <<>>], "none", <<>>)
      [] s.kind = "DROP_INDEX" -> Step([d EXCEPT !.indexes = @ \ {s.arg}], "none", <<>>)
      [] s.kind = "CREATE_INDEX" -> Step([d EXCEPT !.indexes = @ \cup {s.arg}], "none", <<>>)
      [] s.kind = "SQL" -> ExecSql(d, s.arg)
      [] s.kind = "SELECT_TASK1" -> Step(d, "none", Task1Rows(d))
      [] s.kind = "SELECT_TASK2" -> Step(d, "none", Task2Rows(d, s.arg))
      [] s.kind = "SELECT_TASK3" -> Step(d, "none", Task3Rows(d, s.arg))
      [] s.kind = "SELECT_TASK4" -> Step(d, "none", Task4Rows(d))

\* the statements a fetchall() follows
FetchKinds == {"SQL", "SELECT_TASK1", "SELECT_TASK2", "SELECT_TASK3", "SELECT_TASK4"}

\* The body of a try block: the statements in order, up to the first one
\* that raises.  fault = k > 0 makes the k-th statement fail in the store
\* (disk, lock, ...) with an sqlite3.Error before it takes effect.  r is what
\* the k-th statement, executed once, leaves.
RECURSIVE RunStatements(_, _, _, _, _, _)
RECURSIVE AfterStatement(_, _, _, _, _, _)
RunStatements(d, stmts, fault, k, issued, rows) ==
    IF k > Len(stmts)
    THEN [db |-> d, err |-> "none", issued |-> issued, rows |-> rows, failedAt |-> 0]
    ELSE CHOOSE after \in
             {AfterStatement(r, stmts, fault, k, Append(issued, stmts[k].kind), rows) :
                 r \in {IF fault = k THEN Step(d, "Error", <<>>) ELSE Exec(d, stmts[k])}} : TRUE

\* r: what the k-th statement left; the next statement runs when it raised
\* nothing
AfterStatement(r, stmts, fault, k, issued, rows) ==
    IF r.err # "none"
    THEN [db |-> r.db, err |-> r.err, issued |-> issued, rows |-> rows, failedAt |-> k]
    ELSE RunStatements(r.db, stmts, fault, k + 1, issued,
                       IF stmts[k].kind \in FetchKinds THEN r.rows ELSE rows)

\* What a manager method hands back: the connection after it, "ok" or what it
\* raised, the statements it issued, the rows it returned.
Result(d, outcome, issued, rows, failedAt) ==
    [db |-> d, outcome |-> outcome, issued |-> issued, rows |-> rows, failedAt |-> failedAt]

\* variants of the except clause, for checking that the properties notice it
ExceptNoRollback(r) ==
    Result(r.db, IF r.err = "none" THEN "ok" ELSE r.err, r.issued,
           IF r.err = "none" THEN r.rows ELSE <<>>, r.failedAt)

ExceptCommit(r) ==
    CASE r.err = "none" -> Result(r.db, "ok", r.issued, r.rows, 0)
      [] r.err = "Error" ->
            Result(Commit(r.db).db, "Error", Append(r.issued, "COMMIT"), <<>>, r.failedAt)
      [] r.err = "Exception" -> Result(r.db, "Exception", r.issued, <<>>, r.failedAt)

ExceptSwallow(r) ==
    CASE r.err = "none" -> Result(r.db, "ok", r.issued, r.rows, 0)
      [] r.err = "Error" ->
            Result(Rollback(r.db), "ok", Append(r.issued, "ROLLBACK"), <<>>, r.failedAt)
      [] r.err = "Exception" -> Result(r.db, "Exception", r.issued, <<>>, r.failedAt)

TransactNoRollback(d, stmts, fault) ==
    ExceptNoRollback(RunStatements(d, stmts, fault, 1, <<>>, <<>>))

TransactCommitOnError(d, stmts, fault) ==
    ExceptCommit(RunStatements(d, stmts, fault, 1, <<>>, <<>>))

TransactSwallow(d, stmts, fault) ==
    ExceptSwallow(RunStatements(d, stmts, fault, 1, <<>>, <<>>))

\* except Error: rollback; raise.  r is what the try block left.  An
\* exception that is not an sqlite3.Error passes the except clause: no
\* rollback, the transaction stays open.
ExceptError(r) ==
    CASE r.err = "none" -> Result(r.db, "ok", r.issued, r.rows, 0)
      [] r.err = "Error" ->
            Result(Rollback(r.db), "Error", Append(r.issued, "ROLLBACK"), <<>>, r.failedAt)
      [] r.err = "Exception" -> Result(r.db, "Exception", r.issued, <<>>, r.failedAt)

\* try: <statements> except Error: rollback; raise
Transact(d, stmts, fault) == ExceptError(RunStatements(d, stmts, fault, 1, <<>>, <<>>))

(***************************************************************************)
(* DbManager: every method is (connection, argument, fault) -> Result      *)
(***************************************************************************)
BEGIN == Stmt("BEGIN", <<>>)

COMMIT == Stmt("COMMIT", <<>>)

insert_rooms_commit_on_error(d, rooms, fault) ==
    TransactCommitOnError(d, <<BEGIN, Stmt("INSERT_ROOMS", rooms), COMMIT>>, fault)

insert_rooms(d, rooms, fault) ==
    Transact(d, <<BEGIN, Stmt("INSERT_ROOMS", rooms), COMMIT>>, fault)

insert_students_no_rollback(d, students, fault) ==
    TransactNoRollback(d, <<BEGIN, Stmt("INSERT_STUDENTS", students), COMMIT>>, fault)

insert_students_binds_sex_as_name(d, students, fault) ==
    Transact(d, <<BEGIN,
                  Stmt("INSERT_STUDENTS",
                       [k \in 1..Len(students) |->
                           [students[k] EXCEPT !.name = students[k].sex,
                                               !.sex = students[k].name]]),
                  COMMIT>>, fault)

insert_students(d, students, fault) ==
    Transact(d, <<BEGIN, Stmt("INSERT_STUDENTS", students), COMMIT>>, fault)

clear_tables_commits_deletes(d, arg, fault) ==
    Transact(d, <<BEGIN, Stmt("DELETE_STUDENTS", <<>>), Stmt("DELETE_ROOMS", <<>>), COMMIT,
                  Stmt("DROP_INDEX", "idx_students_room"),
                  Stmt("DROP_INDEX", "idx_students_birthday")>>, fault)

clear_tables_drops_one_index(d, arg, fault) ==
    Transact(d, <<BEGIN, Stmt("DELETE_STUDENTS", <<>>), Stmt("DELETE_ROOMS", <<>>),
                  Stmt("DROP_INDEX", "idx_students_room"),
                  Stmt("DROP_INDEX", "idx_students_room"), COMMIT>>, fault)

clear_tables_keeps_rooms(d, arg, fault) ==
    Transact(d, <<BEGIN, Stmt("DELETE_STUDENTS", <<>>), Stmt("DELETE_STUDENTS", <<>>),
                  Stmt("DROP_INDEX", "idx_students_room"),
                  Stmt("DROP_INDEX", "idx_students_birthday"), COMMIT>>, fault)

clear_tables(d, arg, fault) ==
    Transact(d, <<BEGIN, Stmt("DELETE_STUDENTS", <<>>), Stmt("DELETE_ROOMS", <<>>),
                  Stmt("DROP_INDEX", "idx_students_room"),
                  Stmt("DROP_INDEX", "idx_students_birthday"), COMMIT>>, fault)

execute_query(d, query, fault) ==
    LET r == Transact(d, <<BEGIN, Stmt("SQL", query), COMMIT>>, fault)
    IN  [r EXCEPT !.rows = <<>>]

fetch_all_returns_empty_on_error(d, query, fault) ==
    TransactSwallow(d, <<BEGIN, Stmt("SQL", query), COMMIT>>, fault)

fetch_all(d, query, fault) ==
    Transact(d, <<BEGIN, Stmt("SQL", query), COMMIT>>, fault)

create_indexes_on_room_only(d, arg, fault) ==
    Transact(d, <<BEGIN, Stmt("CREATE_INDEX", "idx_students_room"),
                  Stmt("CREATE_INDEX", "idx_students_room"), COMMIT>>, fault)

create_indexes(d, arg, fault) ==
    Transact(d, <<BEGIN, Stmt("CREATE_INDEX", "idx_students_room"),
                  Stmt("CREATE_INDEX", "idx_students_birthday"), COMMIT>>, fault)

\* now: the instant JULIANDAY('now') gives the statement, as a day number
task1(d, now, fault) == Transact(d, <<BEGIN, Stmt("SELECT_TASK1", now), COMMIT>>, fault)

task2_deletes_students(d, now, fault) ==
    Transact(d, <<BEGIN, Stmt("DELETE_STUDENTS", <<>>), COMMIT>>, fault)

task2(d, now, fault) == Transact(d, <<BEGIN, Stmt("SELECT_TASK2", now), COMMIT>>, fault)

task3(d, now, fault) == Transact(d, <<BEGIN, Stmt("SELECT_TASK3", now), COMMIT>>, fault)

task4(d, now, fault) == Transact(d, <<BEGIN, Stmt("SELECT_TASK4", now), COMMIT>>, fault)

\* number of statements a method issues when none fails (the last is commit)
StatementCount(op) ==
    CASE op = "clear_tables" -> 6
      [] op = "create_indexes" -> 4
      [] OTHER -> 3

Faults(op) == 0..StatementCount(op)

(***************************************************************************)
(* Direct calls of the manager, as the unit tests make them                *)
(***************************************************************************)
NoCall ==
    [op |-> "none", arg |-> <<>>, fault |-> 0, outcome |-> "ok", issued |-> <<>>,
     rows |-> <<>>, failedAt |-> 0, pre |-> Store(EmptyContent),
     via |-> "direct", ret |-> "None", raised |-> "none", calls |-> 0]

\* A direct call, one at a time (single-threaded caller): the connection
\* after it and the caller's record of what it passed and what came back
Called(op, arg, fault, r) ==
    /\ call.op = "none"
    /\ run.pc = "Idle"
    /\ db' = r.db
    /\ call' = [op |-> op, arg |-> arg, fault |-> fault, outcome |-> r.outcome,
                issued |-> r.issued, rows |-> r.rows, failedAt |-> r.failedAt,
                pre |-> db, via |-> "direct",
                ret |-> IF r.outcome = "ok" THEN "None" ELSE "raised",
                raised |-> IF r.outcome = "ok" THEN "none" ELSE r.outcome,
                calls |-> 1]
    /\ UNCHANGED <<idIsRowid, run>>

InsertRooms ==
    \E b \in Batches(RoomRows), f \in Faults("insert_rooms") :
        Called("insert_rooms", b, f, insert_rooms(db, b, f))

InsertStudents ==
    \E b \in Batches(StudentRows), f \in Faults("insert_students") :
        Called("insert_students", b, f, insert_students(db, b, f))

ClearTables ==
    \E f \in Faults("clear_tables") :
        Called("clear_tables", <<>>, f, clear_tables(db, <<>>, f))

ExecuteQuery ==
    \E q \in Queries, f \in Faults("execute_query") :
        Called("execute_query", q, f, execute_query(db, q, f))

FetchAll ==
    \E q \in Queries, f \in Faults("fetch_all") :
        Called("fetch_all", q, f, fetch_all(db, q, f))

CreateIndexes ==
    \E f \in Faults("create_indexes") :
        Called("create_indexes", <<>>, f, create_indexes(db, <<>>, f))

\* the caller has looked at the outcome of its call and goes on
Return ==
    /\ call.op # "none"
    /\ run.pc = "Idle"
    /\ call' = NoCall
    /\ UNCHANGED <<db, idIsRowid, run>>

\* instants at which a query may run, as day numbers
Nows == {9500, 9501}

Task1 == \E now \in Nows, f \in Faults("task1") : Called("task1", now, f, task1(db, now, f))

Task2 == \E now \in Nows, f \in Faults("task2") : Called("task2", now, f, task2(db, now, f))

Task3 == \E now \in Nows, f \in Faults("task3") : Called("task3", now, f, task3(db, now, f))

Task4 == \E now \in Nows, f \in Faults("task4") : Called("task4", now, f, task4(db, now, f))

\* an input file: unreadable or not JSON, holding no data, or holding rows
File(kind, rows) == [kind |-> kind, rows |-> rows]

\* One run of main: the next stage, the command line, what the run has read,
\* started, completed, issued on the connection, written and printed so far,
\* and the output artifacts in its working directory.
StartRun(roomsFile, studentsFile, format, dbc) ==
    [pc |-> "ReadInputs", roomsFile |-> roomsFile, studentsFile |-> studentsFile,
     format |-> format, dbc |-> dbc, reads |-> <<>>, rooms |-> <<>>, students |-> <<>>,
     started |-> <<>>, completed |-> <<>>, failed |-> "none", conn |-> "none",
     closes |-> 0, issued |-> <<>>, results |-> <<>>, paths |-> <<>>, written |-> <<>>,
     printed |-> <<>>, files |-> {}]

\* no run of main: the manager is called directly
RunIdle == [StartRun(File("empty", <<>>), File("empty", <<>>), "json", "n") EXCEPT !.pc = "Idle"]

Init ==
    /\ db = Store(EmptyContent)
    /\ idIsRowid \in BOOLEAN
    /\ call = NoCall
    /\ run = RunIdle

Next ==
    \/ InsertRooms
    \/ InsertStudents
    \/ ClearTables
    \/ ExecuteQuery
    \/ FetchAll
    \/ CreateIndexes
    \/ Task1
    \/ Task2
    \/ Task3
    \/ Task4
    \/ Return

Spec == Init /\ [][Next]_vars

(***************************************************************************)
(* runtime_handler.handle_db_operation                                     *)
(***************************************************************************)
\* the operations handle_db_operation is given: Callable[..., None]
HandledOps == {"clear_tables", "insert_rooms", "insert_students", "create_indexes",
               "execute_query"}

Args(op) ==
    CASE op = "insert_rooms" -> Batches(RoomRows)
      [] op = "insert_students" -> Batches(StudentRows)
      [] op = "execute_query" -> Queries
      [] OTHER -> {<<>>}

\* operation(*args)
Invoke(op, d, arg, fault) ==
    CASE op = "insert_rooms" -> insert_rooms(d, arg, fault)
      [] op = "insert_students" -> insert_students(d, arg, fault)
      [] op = "clear_tables" -> clear_tables(d, arg, fault)
      [] op = "create_indexes" -> create_indexes(d, arg, fault)
      [] op = "execute_query" -> execute_query(d, arg, fault)

\* isinstance(raised, class): sqlite3.Error derives from Exception
IsInstance(kind, class) == kind # "none" /\ kind # "ok" /\ (class = "Exception" \/ kind = class)

Handling(r, ret, raised, calls) ==
    [db |-> r.db, r |-> r, ret |-> ret, raised |-> raised, calls |-> calls]

\* except <class>: ... return False; return True after the try.  r is what
\* the operation left.
Except(class, r) ==
    IF r.outcome = "ok"
    THEN Handling(r, "True", "none", 1)
    ELSE IF IsInstance(r.outcome, class)
    THEN Handling(r, "False", "none", 1)
    ELSE Handling(r, "raised", r.outcome, 1)

handle_db_operation_catches_sqlite_errors_only(op, d, arg, fault) ==
    Except("Error", Invoke(op, d, arg, fault))

\* try: operation(*args) except Exception: log, print, return False
\* return True
handle_db_operation(op, d, arg, fault) == Except("Exception", Invoke(op, d, arg, fault))

\* handle_db_operation(operation, error_message, logger, *args) has returned h
Handled(op, arg, f, h) ==
    /\ call.op = "none"
    /\ run.pc = "Idle"
    /\ db' = h.db
    /\ call' = [op |-> op, arg |-> arg, fault |-> f, outcome |-> h.r.outcome,
                issued |-> h.r.issued, rows |-> <<>>, failedAt |-> h.r.failedAt,
                pre |-> db, via |-> "handle_db_operation", ret |-> h.ret,
                raised |-> h.raised, calls |-> h.calls]
    /\ UNCHANGED <<idIsRowid, run>>

HandleDbOperation ==
    \E op \in HandledOps :
        \E arg \in Args(op), f \in Faults(op) :
            Handled(op, arg, f, handle_db_operation(op, db, arg, f))

NextHandler ==
    \/ HandleDbOperation
    \/ Return

SpecHandler == Init /\ [][NextHandler]_vars

(***************************************************************************)
(* main: the pipeline                                                      *)
(***************************************************************************)
\* json_parser.read_rooms_file / read_students_file: the rows, None when the
\* JSON holds no data, or the exception of open / json.load re-raised
read_file(file) ==
    CASE file.kind = "unreadable" -> [err |-> "Exception", none |-> FALSE, rows |-> <<>>]
      [] file.kind = "empty" -> [err |-> "none", none |-> TRUE, rows |-> <<>>]
      [] file.kind = "data" -> [err |-> "none", none |-> FALSE, rows |-> file.rows]

read_rooms_file(file) == read_file(file)

read_students_file(file) == read_file(file)

\* output_manager.output_json / output_xml: None and no file for empty data,
\* else the path of the file written, or the OSError of the write re-raised
OutputPath(format, k) == [none |-> FALSE, task |-> k, format |-> format]

NoPath == [none |-> TRUE, task |-> 0, format |-> ""]

\* an output artifact: the file task<k>_output.<format> and the rows in it
Artifact(k, format, data) == [task |-> k, format |-> format, data |-> data]

\* open(file_path, "w") and file.write(...): the file is created or replaced
WriteFile(files, k, format, data) ==
    {a \in files : ~(a.task = k /\ a.format = format)} \cup {Artifact(k, format, data)}

\* how a write goes: it succeeds, open raises (the file is untouched), or
\* write raises after open has truncated the file
WriteFaults == {"none", "open", "write"}

output_writes_empty_data(format, data, k, fault, files) ==
    IF fault = "open"
    THEN [err |-> "Exception", path |-> NoPath, wrote |-> FALSE, files |-> files]
    ELSE IF fault = "write"
    THEN [err |-> "Exception", path |-> NoPath, wrote |-> FALSE,
          files |-> WriteFile(files, k, format, <<>>)]
    ELSE [err |-> "none", path |-> OutputPath(format, k), wrote |-> TRUE,
          files |-> WriteFile(files, k, format, data)]

\* output_json / output_xml: None for empty data, else the file is written
\* and its path returned; an OSError is raised again
output(format, data, k, fault, files) ==
    IF data = <<>>
    THEN [err |-> "none", path |-> NoPath, wrote |-> FALSE, files |-> files]
    ELSE IF fault = "open"
    THEN [err |-> "Exception", path |-> NoPath, wrote |-> FALSE, files |-> files]
    ELSE IF fault = "write"
    THEN [err |-> "Exception", path |-> NoPath, wrote |-> FALSE,
          files |-> WriteFile(files, k, format, <<>>)]
    ELSE [err |-> "none", path |-> OutputPath(format, k), wrote |-> TRUE,
          files |-> WriteFile(files, k, format, data)]

output_json(data, k, fault, files) == output("json", data, k, fault, files)

output_xml(data, k, fault, files) == output("xml", data, k, fault, files)

\* the stage main goes to when a stage has returned
Following_skips_create_indexes(stage, dbc) ==
    CASE stage = "ReadInputs" -> "Open"
      [] stage = "Open" -> "ClearStore"
      [] stage = "ClearStore" -> "InsertRooms"
      [] stage = "InsertRooms" -> "InsertStudents"
      [] stage = "InsertStudents" -> "Task1"
      [] stage = "CreateIndexes" -> "Task1"
      [] stage = "Task1" -> "Task2"
      [] stage = "Task2" -> "Task3"
      [] stage = "Task3" -> "Task4"
      [] stage = "Task4" -> "Out1"
      [] stage = "Out1" -> "Out2"
      [] stage = "Out2" -> "Out3"
      [] stage = "Out3" -> "Out4"
      [] stage = "Out4" -> IF dbc = "y" THEN "FinalClear" ELSE "Done"
      [] stage = "FinalClear" -> "Done"

Following(stage, dbc) ==
    CASE stage = "ReadInputs" -> "Open"
      [] stage = "Open" -> "ClearStore"
      [] stage = "ClearStore" -> "InsertRooms"
      [] stage = "InsertRooms" -> "InsertStudents"
      [] stage = "InsertStudents" -> "CreateIndexes"
      [] stage = "CreateIndexes" -> "Task1"
      [] stage = "Task1" -> "Task2"
      [] stage = "Task2" -> "Task3"
      [] stage = "Task3" -> "Task4"
      [] stage = "Task4" -> "Out1"
      [] stage = "Out1" -> "Out2"
      [] stage = "Out2" -> "Out3"
      [] stage = "Out3" -> "Out4"
      [] stage = "Out4" -> IF dbc = "y" THEN "FinalClear" ELSE "Done"
      [] stage = "FinalClear" -> "Done"

OnFailure_goes_on(stage, dbc) == Following(stage, dbc)

\* except Exception: log, print, return
OnFailure_serializes_after_failed_query(stage, dbc) ==
    IF stage \in {"Task1", "Task2", "Task3", "Task4"} THEN "Out1" ELSE "Halted"

OnFailure_clears_after_failed_insert(stage, dbc) ==
    IF stage = "InsertStudents" THEN "FinalClear" ELSE "Halted"

OnFailure_clears_after_failed_output(stage, dbc) ==
    IF stage \in {"Out1", "Out2", "Out3", "Out4"} /\ dbc = "y" THEN "FinalClear" ELSE "Halted"

OnFailure_stays_in_the_stage(stage, dbc) == "Waiting"

OnFailure(stage, dbc) == "Halted"

Message_reports_failed_read_as_empty(stage, format) ==
    CASE stage = "ReadInputs" -> "Rooms file is empty."
      [] stage \in {"ClearStore", "FinalClear"} -> "Failed to clear the database."
      [] stage \in {"InsertRooms", "InsertStudents"} -> "Failed to insert data in database."
      [] stage = "CreateIndexes" -> "Failed to create indexes."
      [] stage \in {"Task1", "Task2", "Task3", "Task4"} -> "Failed to perform tasks."
      [] OTHER -> IF format = "xml" THEN "Failed to write results to XML file."
                  ELSE "Failed to write results to JSON file."

\* what main prints when the stage raises
Message(stage, format) ==
    CASE stage = "ReadInputs" -> "Failed to read input files."
      [] stage \in {"ClearStore", "FinalClear"} -> "Failed to clear the database."
      [] stage \in {"InsertRooms", "InsertStudents"} -> "Failed to insert data in database."
      [] stage = "CreateIndexes" -> "Failed to create indexes."
      [] stage \in {"Task1", "Task2", "Task3", "Task4"} -> "Failed to perform tasks."
      [] OTHER -> IF format = "xml" THEN "Failed to write results to XML file."
                  ELSE "Failed to write results to JSON file."

\* sqlite3 closes the connection when main returns and the manager is
\* collected (DbManager.__del__); an open transaction is rolled back
Close(d) == IF d.inTx THEN Rollback(d) ELSE d

Leave_closes_at_done_only(stage, ok, d, upd) ==
    LET to == IF ok THEN Following(stage, run.dbc) ELSE OnFailure(stage, run.dbc)
        closing == to = "Done" /\ upd.conn = "open"
    IN  /\ run.pc = stage
        /\ db' = IF closing THEN Close(d) ELSE d
        /\ run' = [upd EXCEPT !.pc = to,
                              !.started = Append(@, stage),
                              !.completed = IF ok THEN Append(@, stage) ELSE @,
                              !.failed = IF ok THEN @ ELSE stage,
                              !.conn = IF closing THEN "closed" ELSE @,
                              !.closes = IF closing THEN @ + 1 ELSE @]
        /\ UNCHANGED <<idIsRowid, call>>

\* The stage has run: d is the connection after it, upd the run with what the
\* stage read, issued, wrote or printed.
Leave(stage, ok, d, upd) ==
    LET to == IF ok THEN Following(stage, run.dbc) ELSE OnFailure(stage, run.dbc)
        closing == to \in {"Done", "Halted"} /\ upd.conn = "open"
    IN  /\ run.pc = stage
        /\ db' = IF closing THEN Close(d) ELSE d
        /\ run' = [upd EXCEPT !.pc = to,
                              !.started = Append(@, stage),
                              !.completed = IF ok THEN Append(@, stage) ELSE @,
                              !.failed = IF ok THEN @ ELSE stage,
                              !.conn = IF closing THEN "closed" ELSE @,
                              !.closes = IF closing THEN @ + 1 ELSE @]
        /\ UNCHANGED <<idIsRowid, call>>

Halting(stage, message) == [run EXCEPT !.printed = Append(@, message)]

\* main.py 45-61: both files are read in one try, then checked for None
ReadInputs ==
    /\ run.pc = "ReadInputs"
    /\ LET rr == read_rooms_file(run.roomsFile)
           sr == read_students_file(run.studentsFile)
       IN  IF rr.err # "none"
           THEN Leave("ReadInputs", FALSE, db,
                      [Halting("ReadInputs", Message("ReadInputs", run.format))
                          EXCEPT !.reads = <<"rooms">>])
           ELSE IF sr.err # "none"
           THEN Leave("ReadInputs", FALSE, db,
                      [Halting("ReadInputs", Message("ReadInputs", run.format))
                          EXCEPT !.reads = <<"rooms", "students">>])
           ELSE IF rr.none
           THEN Leave("ReadInputs", FALSE, db,
                      [Halting("ReadInputs", "Rooms file is empty.")
                          EXCEPT !.reads = <<"rooms", "students">>])
           ELSE IF sr.none
           THEN Leave("ReadInputs", FALSE, db,
                      [Halting("ReadInputs", "Students file is empty.")
                          EXCEPT !.reads = <<"rooms", "students">>])
           ELSE Leave("ReadInputs", TRUE, db,
                      [run EXCEPT !.reads = <<"rooms", "students">>,
                                  !.rooms = rr.rows, !.students = sr.rows])

Open_halts_with_message ==
    run.pc = "Open" /\ \E reached \in BOOLEAN :
        IF reached
        THEN Leave("Open", TRUE, db, [run EXCEPT !.conn = "open"])
        ELSE Leave("Open", FALSE, db, Halting("Open", "Failed to connect to the database."))

\* main.py 65: db = DbManager(), outside every try: an sqlite3.Error of
\* connect leaves main as an uncaught exception
Open ==
    run.pc = "Open" /\ \E reached \in BOOLEAN :
        IF reached
        THEN Leave("Open", TRUE, db, [run EXCEPT !.conn = "open"])
        ELSE /\ run.pc = "Open"
             /\ run' = [run EXCEPT !.pc = "Aborted", !.started = Append(@, "Open"),
                                   !.failed = "Open"]
             /\ UNCHANGED <<db, idIsRowid, call>>

\* a stage that is one manager call inside try / except Exception
StoreStage(stage, returned) ==
    \E r \in {returned} :
        IF r.outcome = "ok"
        THEN Leave(stage, TRUE, r.db, [run EXCEPT !.issued = @ \o r.issued])
        ELSE /\ IsInstance(r.outcome, "Exception")
             /\ Leave(stage, FALSE, r.db,
                      [Halting(stage, Message(stage, run.format))
                          EXCEPT !.issued = @ \o r.issued])

ClearStore ==
    /\ run.pc = "ClearStore"
    /\ \E f \in Faults("clear_tables") : StoreStage("ClearStore", clear_tables(db, <<>>, f))

MainInsertRooms ==
    /\ run.pc = "InsertRooms"
    /\ \E f \in Faults("insert_rooms") :
           StoreStage("InsertRooms", insert_rooms(db, run.rooms, f))

MainInsertStudents ==
    /\ run.pc = "InsertStudents"
    /\ \E f \in Faults("insert_students") :
           StoreStage("InsertStudents", insert_students(db, run.students, f))

MainCreateIndexes ==
    /\ run.pc = "CreateIndexes"
    /\ \E f \in Faults("create_indexes") :
           StoreStage("CreateIndexes", create_indexes(db, <<>>, f))

\* a query of the RunQueries block: its rows are kept for the output
QueryStage(stage, returned) ==
    \E r \in {returned} :
        IF r.outcome = "ok"
        THEN Leave(stage, TRUE, r.db,
                   [run EXCEPT !.issued = @ \o r.issued, !.results = Append(@, r.rows)])
        ELSE /\ IsInstance(r.outcome, "Exception")
             /\ Leave(stage, FALSE, r.db,
                      [Halting(stage, Message(stage, run.format))
                          EXCEPT !.issued = @ \o r.issued])

MainTask1 ==
    /\ run.pc = "Task1"
    /\ \E now \in Nows, f \in Faults("task1") : QueryStage("Task1", task1(db, now, f))

MainTask2 ==
    /\ run.pc = "Task2"
    /\ \E now \in Nows, f \in Faults("task2") : QueryStage("Task2", task2(db, now, f))

MainTask3 ==
    /\ run.pc = "Task3"
    /\ \E now \in Nows, f \in Faults("task3") : QueryStage("Task3", task3(db, now, f))

MainTask4 ==
    /\ run.pc = "Task4"
    /\ \E now \in Nows, f \in Faults("task4") : QueryStage("Task4", task4(db, now, f))

\* the line main prints for one entry of tasks_result
ReportLine(k, path) ==
    IF path.none
    THEN "Task data is empty. Output file for this task will not be created."
    ELSE "Task output file path."

\* tasks_result.append(output_xml(...)) / output_json(...) for task k; after
\* the fourth, the loop that prints one line per task
OutputStage(stage, k) ==
    \E fault \in WriteFaults :
        LET data == IF k <= Len(run.results) THEN run.results[k] ELSE <<>>
            o == IF run.format = "xml" THEN output_xml(data, k, fault, run.files)
                 ELSE output_json(data, k, fault, run.files)
            paths == Append(run.paths, o.path)
        IN  /\ data = <<>> => fault = "none"
            /\ IF o.err = "none"
               THEN Leave(stage, TRUE, db,
                          [run EXCEPT !.paths = paths, !.files = o.files,
                                      !.written = IF o.wrote THEN Append(@, k) ELSE @,
                                      !.printed = IF k = 4
                                                  THEN @ \o [j \in 1..4 |-> ReportLine(j, paths[j])]
                                                  ELSE @])
               ELSE Leave(stage, FALSE, db,
                          [Halting(stage, Message(stage, run.format))
                              EXCEPT !.files = o.files])

Out1 == run.pc = "Out1" /\ OutputStage("Out1", 1)

Out2 == run.pc = "Out2" /\ OutputStage("Out2", 2)

Out3 == run.pc = "Out3" /\ OutputStage("Out3", 3)

Out4 == run.pc = "Out4" /\ OutputStage("Out4", 4)

\* main.py 141-148: if args.dbc == "y": clear_tables()
FinalClear ==
    /\ run.pc = "FinalClear"
    /\ \E f \in Faults("clear_tables") : StoreStage("FinalClear", clear_tables(db, <<>>, f))

\* what the database file holds when main starts: nothing, or what an
\* earlier run without the final clear has left
PriorContents ==
    {EmptyContent,
     Content(<<Room(1, "A")>>, <<Student(1, "Frank", 0, "M", 1)>>, IndexNames)}

Files(S) ==
    {File("unreadable", <<>>), File("empty", <<>>)}
        \cup {File("data", rows) : rows \in Batches(S) \ {<<>>}}

\* the artifacts in the working directory when main starts: none, or what
\* an earlier run has written for task4
PriorFiles == {{}, {Artifact(4, "json", <<<<"A">>>>)}}

InitMain ==
    /\ \E c \in PriorContents : db = Store(c)
    /\ idIsRowid \in BOOLEAN
    /\ call = NoCall
    /\ \E rf \in Files(RoomRows), sf \in Files(StudentRows),
          format \in {"xml", "json"}, dbc \in {"y", "n"}, fs \in PriorFiles :
            run = [StartRun(rf, sf, format, dbc) EXCEPT !.files = fs]

NextMain ==
    \/ ReadInputs
    \/ Open
    \/ ClearStore
    \/ MainInsertRooms
    \/ MainInsertStudents
    \/ MainCreateIndexes
    \/ MainTask1
    \/ MainTask2
    \/ MainTask3
    \/ MainTask4
    \/ Out1
    \/ Out2
    \/ Out3
    \/ Out4
    \/ FinalClear

SpecMain == InitMain /\ [][NextMain]_vars

(***************************************************************************)
(* runtime_handler.handle_file_reading                                     *)
(***************************************************************************)
Readers == {"read_rooms_file", "read_students_file"}

\* func(file_path)
Read(reader, file) ==
    IF reader = "read_rooms_file" THEN read_rooms_file(file) ELSE read_students_file(file)

\* the files a reader is given
FilesOf(reader) == IF reader = "read_rooms_file" THEN Files(RoomRows) ELSE Files(StudentRows)

\* what handle_file_reading hands back: the reader's list, None or -1
Reading(ret, rows, raised, calls) ==
    [ret |-> ret, rows |-> rows, raised |-> raised, calls |-> calls]

ExceptReadingReturnsNone(r) ==
    IF IsInstance(r.err, "Exception") \/ r.none
    THEN Reading("None", <<>>, "none", 1)
    ELSE Reading("data", r.rows, "none", 1)

\* try: return func(file_path) except Exception: log, print, return -1.
\* r is what the reader left.
ExceptReading(r) ==
    IF IsInstance(r.err, "Exception")
    THEN Reading("-1", <<>>, "none", 1)
    ELSE IF r.none
    THEN Reading("None", <<>>, "none", 1)
    ELSE Reading("data", r.rows, "none", 1)

handle_file_reading_returns_none_on_error(reader, file) ==
    ExceptReadingReturnsNone(Read(reader, file))

handle_file_reading(reader, file) == ExceptReading(Read(reader, file))

\* handle_file_reading(func, file_path, log_error_message, logger) has returned h
FileHandled(reader, file, r, h) ==
    /\ call.op = "none"
    /\ run.pc = "Idle"
    /\ call' = [NoCall EXCEPT !.op = reader, !.arg = file,
                              !.outcome = IF r.err = "none" THEN "ok" ELSE r.err,
                              !.rows = h.rows, !.pre = db, !.via = "handle_file_reading",
                              !.ret = h.ret, !.raised = h.raised, !.calls = h.calls]
    /\ UNCHANGED <<db, idIsRowid, run>>

HandleFileReading ==
    /\ run.pc = "Idle"
    /\ call.op = "none"
    /\ \E reader \in Readers :
           \E file \in FilesOf(reader) :
               FileHandled(reader, file, Read(reader, file), handle_file_reading(reader, file))

(***************************************************************************)
(* runtime_handler.handle_output_operation                                 *)
(***************************************************************************)
OutputStages == <<"Out1", "Out2", "Out3", "Out4">>

\* what the loop has done so far: the artifacts, the paths returned, the
\* tasks attempted and written, the lines printed; ret once it has returned
Outputs(files) ==
    [ret |-> "None", files |-> files, paths |-> <<>>, attempted |-> <<>>,
     written |-> <<>>, printed |-> <<>>]

\* output_func = output_xml if output_format == "xml" else output_json
output_func(format, data, k, fault, files) ==
    IF format = "xml" THEN output_xml(data, k, fault, files)
    ELSE output_json(data, k, fault, files)

\* on a failed write: return False (as the code does), or go on with the
\* next task
RECURSIVE OutputLoop(_, _, _, _, _, _)
RECURSIVE AfterOutput(_, _, _, _, _, _, _)
\* for index, result in enumerate(task_results): ...; return True
OutputLoop(format, results, faults, k, out, onError) ==
    IF k > Len(results)
    THEN [out EXCEPT !.ret = "True"]
    ELSE AfterOutput(output_func(format, results[k], k, faults[k], out.files),
                     format, results, faults, k, out, onError)

\* o: what output_func left for task k.  except Exception: log, print,
\* return False; else print the path or that the data is empty.
AfterOutput(o, format, results, faults, k, out, onError) ==
    IF IsInstance(o.err, "Exception") /\ onError = "return"
    THEN [out EXCEPT !.ret = "False", !.files = o.files,
                     !.attempted = Append(@, k),
                     !.printed = Append(@, Message(OutputStages[k], format))]
    ELSE IF IsInstance(o.err, "Exception")
    THEN OutputLoop(format, results, faults, k + 1,
                    [out EXCEPT !.files = o.files, !.attempted = Append(@, k),
                                !.printed = Append(@, Message(OutputStages[k], format))],
                    onError)
    ELSE OutputLoop(format, results, faults, k + 1,
                    [out EXCEPT !.files = o.files, !.attempted = Append(@, k),
                                !.paths = Append(@, o.path),
                                !.written = IF o.wrote THEN Append(@, k) ELSE @,
                                !.printed = Append(@, ReportLine(k, o.path))],
                    onError)

handle_output_operation_goes_on(format, results, faults, files) ==
    OutputLoop(format, results, faults, 1, Outputs(files), "continue")

handle_output_operation(format, results, faults, files) ==
    OutputLoop(format, results, faults, 1, Outputs(files), "return")

\* store contents whose four results the handler is given: a room of two
\* sexes, a room of one sex, a room without students
SampleContents ==
    {Content(<<Room(1, "A"), Room(2, "B")>>,
             <<Student(1, "Frank", 0, "M", 1), Student(2, "Grace", 762, "F", 1)>>, {}),
     Content(<<Room(1, "A")>>, <<Student(1, "Frank", 0, "M", 1)>>, {}),
     Content(<<Room(1, "A")>>, <<>>, {})}

ResultsOf(c, now) ==
    <<Task1Rows(Store(c)), Task2Rows(Store(c), now), Task3Rows(Store(c), now),
      Task4Rows(Store(c))>>

\* task_results: the four results of a store content, or four empty ones
ResultLists == {ResultsOf(c, 9500) : c \in SampleContents} \cup {<<<<>>, <<>>, <<>>, <<>>>>}

\* handle_output_operation(output_format, task_results, logger) has returned h
OutputHandled(format, results, faults, h) ==
    /\ call.op = "none"
    /\ run.pc = "Idle"
    /\ call' = [NoCall EXCEPT !.op = "handle_output_operation",
                              !.arg = [format |-> format, results |-> results,
                                       faults |-> faults, files |-> run.files],
                              !.pre = db, !.via = "handle_output_operation",
                              !.ret = h.ret, !.calls = 1]
    /\ run' = [run EXCEPT !.format = format, !.results = results, !.files = h.files,
                          !.paths = h.paths, !.written = h.written,
                          !.printed = h.printed,
                          !.started = [j \in 1..Len(h.attempted) |->
                                          OutputStages[h.attempted[j]]]]
    /\ UNCHANGED <<db, idIsRowid>>

HandleOutputOperation ==
    /\ run.pc = "Idle"
    /\ call.op = "none"
    /\ \E format \in {"xml", "json"}, results \in ResultLists, faults \in [1..4 -> WriteFaults] :
           /\ \A k \in 1..4 : results[k] = <<>> => faults[k] = "none"
           /\ OutputHandled(format, results, faults,
                            handle_output_operation(format, results, faults, run.files))

(***************************************************************************)
(* The runtime: a run of main, or one call of a runtime_handler function   *)
(***************************************************************************)
InitRuntime ==
    \/ InitMain
    \/ /\ db = Store(EmptyContent)
       /\ idIsRowid \in BOOLEAN
       /\ call = NoCall
       /\ \E fs \in PriorFiles : run = [RunIdle EXCEPT !.files = fs]

NextRuntime ==
    \/ NextMain
    \/ HandleFileReading
    \/ HandleOutputOperation

SpecRuntime == InitRuntime /\ [][NextRuntime]_vars

(***************************************************************************)
(* Properties of the manager, over its direct calls (Spec)                 *)
(***************************************************************************)
SelectRooms == Query("select", "Rooms", <<>>)

SelectStudents == Query("select", "Students", <<>>)

Failed == call.outcome # "ok"

\* none of the call's effects is in the store
NothingCommitted == Committed(db) = Committed(call.pre)

\* the connection is outside a transaction and reads what was committed
\* before the call
RolledBack == ~db.inTx /\ View(db) = Committed(call.pre)

\* a full-table read issued right after the call, if it returns, returns the
\* rows the table had before the call
ReadsAsBefore ==
    /\ LET r == fetch_all(db, SelectRooms, 0)
       IN  r.outcome = "ok" => r.rows = Scan(Committed(call.pre).rooms)
    /\ LET r == fetch_all(db, SelectStudents, 0)
       IN  r.outcome = "ok" => r.rows = Scan(Committed(call.pre).students)

\* C1: an insert_rooms whose batch repeats an id of the Rooms table or of the
\* batch itself fails, and the Rooms table is what it was before the call: no
\* row of the batch is committed, a following full-table read shows none, and
\* after the store's error the whole batch is rolled back.
C1_DuplicateRoomBatchIsRolledBack ==
    (call.op = "insert_rooms" /\ HasDuplicate(Committed(call.pre).rooms, call.arg)) =>
        /\ Failed
        /\ NothingCommitted
        /\ ReadsAsBefore
        /\ (call.outcome = "Error" => RolledBack)

\* the second row of the batch hit the duplicate key after the first row had
\* been inserted, in a table that had rows
C1_Witness ==
    /\ call.op = "insert_rooms"
    /\ call.outcome = "Error"
    /\ call.fault = 0
    /\ ~call.pre.inTx
    /\ call.pre.rooms # <<>>
    /\ Len(call.arg) = 2
    /\ call.arg[1].id \notin Ids(call.pre.rooms)
    /\ call.arg[2].id = call.arg[1].id
    /\ db.rooms = call.pre.rooms

\* C2: insert_students is all-or-nothing on Student.id in the same way: with a
\* repeated id the call fails, the Students table is unchanged (the first row
\* of the batch is not in it) and so is the Rooms table.
C2_DuplicateStudentBatchIsRolledBack ==
    (call.op = "insert_students" /\ HasDuplicate(Committed(call.pre).students, call.arg)) =>
        /\ Failed
        /\ NothingCommitted
        /\ ReadsAsBefore
        /\ (call.outcome = "Error" =>
                /\ RolledBack
                /\ \A k \in 1..Len(call.arg) :
                       call.arg[k].id \notin Ids(Committed(call.pre).students)
                           => call.arg[k].id \notin Ids(db.students))

\* two rows with one id, as in test_insert_students_with_duplicate_id: the
\* first row is not in the table afterwards, and the rooms are still there
C2_Witness ==
    /\ call.op = "insert_students"
    /\ call.outcome = "Error"
    /\ call.fault = 0
    /\ ~call.pre.inTx
    /\ call.pre.students = <<>>
    /\ call.pre.rooms # <<>>
    /\ Len(call.arg) = 2
    /\ call.arg[1].id = call.arg[2].id
    /\ call.arg[1] # call.arg[2]
    /\ db.students = <<>>
    /\ db.rooms = call.pre.rooms

\* C3: every manager operation commits all of its effects or none.  A call
\* that fails commits nothing; when it failed with a store error at one of
\* its statements or at commit, the connection is rolled back to the rows and
\* indexes of before the call, so a clear_tables failing after its DELETEs
\* leaves rows and indexes in place; a call that returns has committed.
C3_AllOrNothing ==
    call.op # "none" =>
        /\ Failed => NothingCommitted /\ ReadsAsBefore
        /\ call.outcome = "Error" => RolledBack
        /\ call.outcome = "ok" => ~db.inTx /\ Committed(db) = View(db)

\* clear_tables failed at a DROP INDEX or at commit, after both DELETEs, with
\* rows in both tables and both indexes in place before and after
C3_Witness ==
    /\ call.op = "clear_tables"
    /\ call.outcome = "Error"
    /\ call.failedAt >= 4
    /\ call.pre.rooms # <<>>
    /\ call.pre.students # <<>>
    /\ call.pre.indexes = IndexNames
    /\ View(db) = View(call.pre)

\* batches of storable, pairwise distinct ids
Insertable(S) ==
    {b \in Batches(S) :
        /\ \A k \in 1..Len(b) : Storable(b[k].id)
        /\ \A j, k \in 1..Len(b) : j # k => b[j].id # b[k].id}

\* C4: after a successful clear_tables both tables are empty, neither
\* secondary index exists, and the tables are there to insert into: an
\* insert_rooms or insert_students issued right after it succeeds.
C4_ClearThenEmpty ==
    (call.op = "clear_tables" /\ call.outcome = "ok") =>
        /\ db.rooms = <<>>
        /\ db.students = <<>>
        /\ db.indexes = {}
        /\ ~db.inTx
        /\ Committed(db) = EmptyContent
        /\ \A b \in Insertable(RoomRows) :
               LET r == insert_rooms(db, b, 0)
               IN  r.outcome = "ok" /\ r.db.rooms = b
        /\ \A b \in Insertable(StudentRows) :
               LET r == insert_students(db, b, 0)
               IN  r.outcome = "ok" /\ r.db.students = b

\* a clear of a store that held rooms, students and both indexes
C4_Witness ==
    /\ call.op = "clear_tables"
    /\ call.outcome = "ok"
    /\ Len(call.pre.rooms) = 2
    /\ call.pre.students # <<>>
    /\ call.pre.indexes = IndexNames
    /\ db.rooms = <<>>
    /\ db.indexes = {}

\* C5: create_indexes is idempotent: with the store answering every
\* statement, it never fails, whatever was called before; afterwards there is
\* exactly one index on Students(room) and one on Students(birthday), and a
\* call that finds both changes neither the indexes nor the rows.
C5_CreateIndexesIdempotent ==
    (call.op = "create_indexes" /\ call.fault = 0) =>
        /\ call.outcome = "ok"
        /\ db.indexes = IndexNames
        /\ \A c \in {"room", "birthday"} :
               Cardinality({n \in db.indexes : IndexColumn(n) = c}) = 1
        /\ db.rooms = call.pre.rooms
        /\ db.students = call.pre.students
        /\ (call.pre.indexes = IndexNames => View(db) = View(call.pre))

\* the rows of a result whose ids are those of the batch, in result order
OfBatch(rows, batch) == SelectSeq(rows, LAMBDA x : x.id \in Ids(batch))

Rows(seq) == {seq[k] : k \in 1..Len(seq)}

Ascending(batch) == \A j, k \in 1..Len(batch) : j < k => batch[j].id < batch[k].id

\* the table a successful insert call worked on holds the old rows plus the
\* rows of the batch, and a full-table fetch_all right after it returns each
\* row of the table once
InsertedInto(before, after, select) ==
    LET r == fetch_all(db, select, 0)
    IN  /\ Rows(after) = Rows(before) \cup Rows(call.arg)
        /\ Len(after) = Len(before) + Len(call.arg)
        /\ r.outcome = "ok"
        /\ Rows(r.rows) = Rows(after)
        /\ Len(r.rows) = Len(after)

\* the rows of the batch as that fetch_all returns them
FetchedOfBatch(select) == OfBatch(fetch_all(db, select, 0).rows, call.arg)

\* C8 as stated: after a successful insert_rooms (insert_students) the table
\* holds the old rows plus the rows of the batch, every field unchanged, and
\* a full-table fetch_all returns the batch rows in the order they were given.
C8_FetchReturnsBatchInGivenOrder ==
    /\ (call.op = "insert_rooms" /\ call.outcome = "ok") =>
           /\ InsertedInto(call.pre.rooms, db.rooms, SelectRooms)
           /\ FetchedOfBatch(SelectRooms) = call.arg
    /\ (call.op = "insert_students" /\ call.outcome = "ok") =>
           /\ InsertedInto(call.pre.students, db.students, SelectStudents)
           /\ FetchedOfBatch(SelectStudents) = call.arg

\* C8, amended: the table holds the old rows plus the rows of the batch, every
\* field unchanged, and a full-table fetch_all returns each of them once; the
\* batch rows come back in the order given when the batch is in ascending id.
C8_FetchReturnsBatchRows ==
    /\ (call.op = "insert_rooms" /\ call.outcome = "ok") =>
           /\ InsertedInto(call.pre.rooms, db.rooms, SelectRooms)
           /\ Ascending(call.arg) => FetchedOfBatch(SelectRooms) = call.arg
    /\ (call.op = "insert_students" /\ call.outcome = "ok") =>
           /\ InsertedInto(call.pre.students, db.students, SelectStudents)
           /\ Ascending(call.arg) => FetchedOfBatch(SelectStudents) = call.arg

\* two students inserted in one batch, all five fields back from the table
C8_Witness ==
    /\ call.op = "insert_students"
    /\ call.outcome = "ok"
    /\ Len(call.arg) = 2
    /\ Ascending(call.arg)
    /\ call.pre.rooms # <<>>
    /\ fetch_all(db, SelectStudents, 0).rows = call.arg
    /\ \E k \in 1..2 : db.students[k] = Student(2, "Grace", 762, "F", 1)

\* C9: a store error inside a manager operation reaches the caller as a
\* raised error, never as a normal return; the manager issues each statement
\* once, in order, stops at the one that failed and does not run it again;
\* execute_query and fetch_all raise for a malformed statement.
C9_ErrorsReachTheCaller ==
    call.op # "none" =>
        LET n == Len(call.issued)
            last == StatementCount(call.op)
        IN  /\ (call.failedAt > 0) <=> Failed
            /\ Failed => call.raised = call.outcome /\ call.ret = "raised"
            /\ call.calls = 1
            /\ call.outcome = "ok" => n = last
            /\ call.outcome = "Error" =>
                   n = call.failedAt + 1 /\ call.issued[n] = "ROLLBACK"
            /\ call.outcome = "Exception" => n = call.failedAt
            /\ call.failedAt <= last
            /\ call.issued[1] = "BEGIN"
            /\ \A k \in 1..n :
                   call.issued[k] \in {"BEGIN", "COMMIT"} => k \in {1, last}
            /\ (call.op \in {"execute_query", "fetch_all"} /\ call.arg.kind = "invalid")
                   => call.outcome = "Error"

\* fetch_all of "INVALID SQL QUERY" raised, as in test_fetch_all_invalid_query
C9_Witness ==
    /\ call.op = "fetch_all"
    /\ call.arg.kind = "invalid"
    /\ call.fault = 0
    /\ ~call.pre.inTx
    /\ call.raised = "Error"
    /\ call.issued = <<"BEGIN", "SQL", "ROLLBACK">>

(***************************************************************************)
(* Properties of handle_db_operation (SpecHandler)                         *)
(***************************************************************************)
\* C10: handle_db_operation invokes the operation exactly once with the given
\* arguments, returns True exactly when the operation returned, False when it
\* raised, and lets no exception of the operation reach its caller.
C10_HandleDbOperation ==
    call.via = "handle_db_operation" =>
        /\ call.calls = 1
        /\ db = Invoke(call.op, call.pre, call.arg, call.fault).db
        /\ call.ret = "True" <=> call.outcome = "ok"
        /\ call.outcome # "ok" => call.ret = "False"
        /\ call.raised = "none"

\* the operation raised an exception that is not an sqlite3.Error, and the
\* caller got False
C10_Witness ==
    /\ call.via = "handle_db_operation"
    /\ call.op = "insert_rooms"
    /\ call.outcome = "Exception"
    /\ call.ret = "False"
    /\ call.raised = "none"

(***************************************************************************)
(* Properties of the pipeline (SpecMain)                                   *)
(***************************************************************************)
\* the stages in the order the pipeline is to start them; Out1..Out4 are the
\* four writes of Serialize
StageOrder(dbc) ==
    <<"ReadInputs", "ClearStore", "InsertRooms", "InsertStudents", "CreateIndexes",
      "Task1", "Task2", "Task3", "Task4", "Out1", "Out2", "Out3", "Out4">>
        \o (IF dbc = "y" THEN <<"FinalClear">> ELSE <<>>)

\* opening the connection is no stage of the pipeline
StagesOf(seq) == SelectSeq(seq, LAMBDA x : x # "Open")

IsPrefix(a, b) == Len(a) <= Len(b) /\ SubSeq(b, 1, Len(a)) = a

Occurrences(seq, x) == Cardinality({k \in 1..Len(seq) : seq[k] = x})

Terminal == {"Done", "Halted", "Aborted"}

\* C6: the stages of a run start in the order ReadInputs, ClearStore,
\* InsertRooms, InsertStudents, CreateIndexes, task1..task4, Serialize, optional
\* final clear; a stage starts only when every stage before it has completed
\* successfully, and a run that is Done has completed every stage, the final
\* clear exactly when the cleanup flag is set.
C6_StagesInOrder ==
    LET started == StagesOf(run.started)
        completed == StagesOf(run.completed)
    IN  run.pc # "Idle" =>
            /\ IsPrefix(started, StageOrder(run.dbc))
            /\ IsPrefix(completed, started)
            /\ Len(started) <= Len(completed) + 1
            /\ run.pc \notin Terminal => completed = started
            /\ run.pc = "Done" => completed = StageOrder(run.dbc)
            /\ run.dbc = "n" => Occurrences(run.started, "FinalClear") = 0

\* a run with the cleanup flag went through every stage and wrote an output
C6_Witness ==
    /\ run.pc = "Done"
    /\ run.dbc = "y"
    /\ run.written # <<>>
    /\ StagesOf(run.completed) = StageOrder("y")

\* C7: when a stage fails the run is Halted, the failing stage is the last one
\* started and was started once, it is not among the completed ones, and Done
\* is not reached; no step leaves Done or Halted.
C7_FailureHalts ==
    /\ [](/\ run.failed \notin {"none", "Open"} =>
                /\ run.pc = "Halted"
                /\ run.started # <<>>
                /\ run.started[Len(run.started)] = run.failed
                /\ Occurrences(run.started, run.failed) = 1
                /\ Occurrences(run.completed, run.failed) = 0
          /\ run.pc = "Halted" => run.failed \notin {"none", "Open"}
          /\ run.pc = "Done" => run.failed = "none")
    /\ [][run.pc \in {"Done", "Halted"} => UNCHANGED vars]_vars

\* a batch of students with a duplicate id stopped the run after the rooms
\* were inserted
C7_Witness ==
    /\ run.pc = "Halted"
    /\ run.failed = "InsertStudents"
    /\ HasDuplicate(<<>>, run.students)
    /\ Occurrences(run.completed, "InsertRooms") = 1
    /\ Occurrences(run.started, "CreateIndexes") = 0

(***************************************************************************)
(* Properties of the runtime handlers and of main (SpecRuntime, SpecMain)   *)
(***************************************************************************)
\* C11: handle_file_reading calls the reader once and never raises; it
\* returns the reader's list unchanged when the reader returned data, None
\* when the reader returned None, and -1 exactly when the reader raised.
C11_HandleFileReading ==
    call.via = "handle_file_reading" =>
        LET r == Read(call.op, call.arg)
        IN  /\ call.calls = 1
            /\ call.raised = "none"
            /\ call.ret \in {"data", "None", "-1"}
            /\ call.ret = "-1" <=> r.err # "none"
            /\ call.ret = "None" <=> (r.err = "none" /\ r.none)
            /\ call.ret = "data" <=> (r.err = "none" /\ ~r.none)
            /\ call.ret = "data" => call.rows = call.arg.rows /\ call.rows # <<>>

\* the reader raised on an unreadable students file and the caller got -1
C11_Witness ==
    /\ call.via = "handle_file_reading"
    /\ call.op = "read_students_file"
    /\ call.arg.kind = "unreadable"
    /\ call.outcome = "Exception"
    /\ call.ret = "-1"

\* the input files of the run, by what reading them gives
Unreadable(file) == file.kind = "unreadable"

Empty(file) == file.kind = "empty"

ReadInputsDone == run.pc # "Idle" /\ run.started # <<>>

\* the run halted at ReadInputs with this one message, nothing opened or
\* issued on the store
HaltedAtInput(message) ==
    /\ run.pc = "Halted"
    /\ run.failed = "ReadInputs"
    /\ run.started = <<"ReadInputs">>
    /\ run.printed = <<message>>
    /\ run.conn = "none"
    /\ run.issued = <<>>
    /\ ~db.inTx

\* C12 as stated: whatever the other file gives, an empty file halts the run
\* with the empty-input message of that file and an unreadable file halts it
\* with the read-failed message, before the store is opened.
C12_EachFileHasItsMessage ==
    ReadInputsDone =>
        /\ Empty(run.roomsFile) => HaltedAtInput("Rooms file is empty.")
        /\ Empty(run.studentsFile) => HaltedAtInput("Students file is empty.")
        /\ (Unreadable(run.roomsFile) \/ Unreadable(run.studentsFile)) =>
               HaltedAtInput("Failed to read input files.")

\* C12, amended: an unreadable file of either kind halts the run with the
\* read-failed message, also when the other file is empty (the students file
\* is not read when the rooms file is unreadable); with both files readable
\* an empty rooms file halts it with the rooms message, and else an empty
\* students file with the students message; always before the store is
\* opened; two files with data do not halt the run at ReadInputs.
C12_InputMessagesByPrecedence ==
    ReadInputsDone =>
        /\ (Unreadable(run.roomsFile) \/ Unreadable(run.studentsFile)) =>
               /\ HaltedAtInput("Failed to read input files.")
               /\ Unreadable(run.roomsFile) <=> run.reads = <<"rooms">>
        /\ (~Unreadable(run.studentsFile) /\ Empty(run.roomsFile)) =>
               HaltedAtInput("Rooms file is empty.")
        /\ (run.roomsFile.kind = "data" /\ Empty(run.studentsFile)) =>
               HaltedAtInput("Students file is empty.")
        /\ (run.roomsFile.kind = "data" /\ run.studentsFile.kind = "data") =>
               /\ run.failed # "ReadInputs"
               /\ run.rooms = run.roomsFile.rows
               /\ run.students = run.studentsFile.rows

\* the rooms file is empty and the students file unreadable: the run halted
\* with the read-failed message
C12_Witness ==
    /\ Empty(run.roomsFile)
    /\ Unreadable(run.studentsFile)
    /\ HaltedAtInput("Failed to read input files.")

QueryStages == {"Task1", "Task2", "Task3", "Task4"}

\* C14: when one of the four queries fails the run is Halted with no output
\* stage started: nothing is written for any task, the tasks whose queries
\* succeeded before included, and no artifact is created or changed from the
\* start of the queries on.
C14_FailedQueryWritesNothing ==
    /\ [](run.failed \in QueryStages =>
            /\ run.pc = "Halted"
            /\ run.written = <<>>
            /\ run.paths = <<>>
            /\ run.files \in PriorFiles
            /\ \A k \in 1..Len(run.started) : run.started[k] \notin {"Out1", "Out2", "Out3", "Out4"}
            /\ Len(run.results) = Len(SelectSeq(run.completed, LAMBDA x : x \in QueryStages)))
    /\ [][(run.pc \in QueryStages \/ run.failed \in QueryStages) =>
              run'.files = run.files /\ run'.written = <<>>]_vars

\* the third query failed after two queries had returned rows
C14_Witness ==
    /\ run.failed = "Task3"
    /\ Len(run.results) = 2
    /\ run.results[1] # <<>>
    /\ run.results[2] # <<>>
    /\ run.written = <<>>

\* the tasks before k that have rows, in order
WrittenBefore(k, results) ==
    SelectSeq([j \in 1..(k - 1) |-> j], LAMBDA j : results[j] # <<>>)

\* the output of task k failed: tasks 1..k were attempted once each and no
\* later one, the artifacts of the tasks before k that have rows are in
\* place, and no artifact of a later task was created or changed
OutputFailedAt(k, format, results, before) ==
    /\ \A j \in 1..4 : Occurrences(run.started, OutputStages[j]) = IF j <= k THEN 1 ELSE 0
    /\ run.written = WrittenBefore(k, results)
    /\ Len(run.paths) = k - 1
    /\ \A j \in 1..(k - 1) :
           results[j] # <<>> => Artifact(j, format, results[j]) \in run.files
    /\ \A a \in run.files : a.task > k => a \in before
    /\ run.printed # <<>>
    /\ run.printed[Len(run.printed)] = Message(OutputStages[k], format)

\* C15: when the write of task k fails, the outputs of tasks k+1..4 are not
\* attempted, the artifacts written for tasks 1..k-1 stay in place, and the
\* output stage reports the failure: handle_output_operation returns False
\* (and True only when no write failed), main halts.
C15_FailedWriteStopsOutput ==
    /\ \A k \in 1..4 :
           run.failed = OutputStages[k] =>
               /\ run.pc = "Halted"
               /\ OutputFailedAt(k, run.format, run.results, UNION PriorFiles)
    /\ call.via = "handle_output_operation" =>
           LET failing == {k \in 1..4 : call.arg.faults[k] # "none"}
           IN  /\ call.ret = "False" <=> failing # {}
               /\ call.ret = "True" <=> failing = {}
               /\ \A k \in failing :
                      (\A j \in failing : k <= j) =>
                          OutputFailedAt(k, call.arg.format, call.arg.results,
                                         call.arg.files)

\* the handler was given rows for tasks 1 and 2 and the write of task 2
\* failed after the artifact of task 1 was written
C15_Witness ==
    /\ call.via = "handle_output_operation"
    /\ call.arg.faults[1] = "none"
    /\ call.arg.faults[2] = "write"
    /\ call.arg.results[1] # <<>>
    /\ call.ret = "False"
    /\ Artifact(1, call.arg.format, call.arg.results[1]) \in run.files
    /\ run.written = <<1>>

\* the artifacts of task k
ArtifactsOf(files, k) == {a \in files : a.task = k}

EmptyLine == "Task data is empty. Output file for this task will not be created."

\* C16: output_json / output_xml return None for an empty row sequence and
\* create or overwrite no artifact; main and handle_output_operation take it
\* as no failure: the task is reported as empty and the next output is
\* attempted; a call given four empty results returns True and leaves every
\* artifact as it was.
C16_EmptyResultIsNotAFailure ==
    /\ [](call.via = "handle_output_operation" =>
            LET results == call.arg.results
                attempted == Len(run.started)
            IN  /\ \A k \in 1..attempted :
                       results[k] = <<>> =>
                           /\ ArtifactsOf(run.files, k) = ArtifactsOf(call.arg.files, k)
                           /\ run.paths[k] = NoPath
                           /\ run.printed[k] = EmptyLine
                           /\ \A j \in 1..Len(run.written) : run.written[j] # k
                           /\ k < 4 => attempted > k
                           /\ k = 4 => call.ret = "True"
                /\ (\A k \in 1..4 : results[k] = <<>>) =>
                       /\ call.ret = "True"
                       /\ attempted = 4
                       /\ run.files = call.arg.files
                       /\ run.written = <<>>)
    /\ [][\A k \in 1..4 :
              (run.pc = OutputStages[k] /\ run.results[k] = <<>>) =>
                  /\ run'.files = run.files
                  /\ run'.written = run.written
                  /\ run'.paths = Append(run.paths, NoPath)
                  /\ run'.failed = "none"
                  /\ run'.pc = Following(OutputStages[k], run.dbc)
                  /\ k = 4 => run'.printed[Len(run'.printed)] = EmptyLine]_vars

\* four empty results were given while an artifact of an earlier run was in
\* place: True was returned and the artifact is as it was
C16_Witness ==
    /\ call.via = "handle_output_operation"
    /\ \A k \in 1..4 : call.arg.results[k] = <<>>
    /\ call.ret = "True"
    /\ call.arg.format = "json"
    /\ run.files = {Artifact(4, "json", <<<<"A">>>>)}

(***************************************************************************)
(* The four queries called on a populated store (SpecTasks)                *)
(***************************************************************************)
\* six rooms, one more than LIMIT 5 keeps; ids are integers, negative ones
\* included, and every one of these can be stored
RoomIds == <<-3, -2, -1, 0, 1, 2>>

\* room names need not differ: the second room may carry the name of the first
RoomNamings == {<<"A", "B", "C", "D", "E", "F">>, <<"A", "A", "C", "D", "E", "F">>}

\* the birthday the students of the r-th room are born around; the last two
\* rooms tie
Birth == <<1000, 2000, 3000, 4000, 5000, 5000>>

OneSex(r) == IF r % 2 = 1 THEN "M" ELSE "F"

\* who lives in the r-th room: nobody, one student, two of one sex, or two of
\* both sexes
Occupants(r, choice) ==
    CASE choice = "none" -> <<>>
      [] choice = "one" -> <<Student(-2 * r, "Frank", Birth[r], OneSex(r), RoomIds[r])>>
      [] choice = "same" ->
            <<Student(-2 * r, "Grace", Birth[r], "F", RoomIds[r]),
              Student(-2 * r - 1, "Grace", Birth[r] + 762, "F", RoomIds[r])>>
      [] choice = "mixed" ->
            <<Student(-2 * r, "Frank", Birth[r] - 300, "M", RoomIds[r]),
              Student(-2 * r - 1, "Grace", Birth[r] + 300, "F", RoomIds[r])>>

Occupancies ==
    {o \in [1..6 -> {"none", "one", "same", "mixed"}] :
        \A r \in 1..6 : o[r] # (IF r % 2 = 1 THEN "same" ELSE "mixed")}

\* the contents the queries are run on
TaskContents ==
    {Content([r \in 1..6 |-> Room(RoomIds[r], naming[r])],
             Occupants(1, o[1]) \o Occupants(2, o[2]) \o Occupants(3, o[3])
                 \o Occupants(4, o[4]) \o Occupants(5, o[5]) \o Occupants(6, o[6]),
             IndexNames) :
        naming \in RoomNamings, o \in Occupancies}

InitTasks ==
    /\ db \in {Store(c) : c \in TaskContents}
    /\ idIsRowid \in BOOLEAN
    /\ call = NoCall
    /\ run = RunIdle

NextTasks ==
    \/ Task1
    \/ Task2
    \/ Task3
    \/ Task4

SpecTasks == InitTasks /\ [][NextTasks]_vars

(***************************************************************************)
(* Properties of the four queries (SpecTasks)                              *)
(***************************************************************************)
Returned(op) == call.op = op /\ call.outcome = "ok"

\* the Student rows whose room is this id
StudentsOf(d, id) == {k \in 1..Len(d.students) : d.students[k].room = id}

Occupied(d) == {j \in 1..Len(d.rooms) : StudentsOf(d, d.rooms[j].id) # {}}

DistinctNames(d) ==
    \A i, j \in 1..Len(d.rooms) : i # j => d.rooms[i].name # d.rooms[j].name

\* the row task1 owes the j-th room
CountRow(d, j) == <<d.rooms[j].name, Cardinality(StudentsOf(d, d.rooms[j].id))>>

\* the mean age of the students of the j-th room, in thousandths of a year
AverageAge(d, j, now) ==
    Years3(SumAges(d, StudentsOf(d, d.rooms[j].id), now),
           Cardinality(StudentsOf(d, d.rooms[j].id)))

\* oldest age minus youngest age in the j-th room, in thousandths of a year
Spread(d, j, now) ==
    Years3(MaxAge(d, StudentsOf(d, d.rooms[j].id), now)
               - MinAge(d, StudentsOf(d, d.rooms[j].id), now), 1)

SexLabels(d, j) == {d.students[k].sex : k \in StudentsOf(d, d.rooms[j].id)}

NonIncreasing(rows) == \A k \in 1..(Len(rows) - 1) : rows[k][2] >= rows[k + 1][2]

NonDecreasing(rows) == \A k \in 1..(Len(rows) - 1) : rows[k][2] <= rows[k + 1][2]

Has(rows, row) == \E k \in 1..Len(rows) : rows[k] = row

Names(rows) == {rows[k][1] : k \in 1..Len(rows)}

Min(a, b) == IF a < b THEN a ELSE b

\* one (name, count) row for every Room row, as many rows of each value as
\* rooms owe it; counts non-increasing
OneRowPerRoom(d, rows) ==
    /\ Len(rows) = Len(d.rooms)
    /\ \A j \in 1..Len(d.rooms) :
           Cardinality({k \in 1..Len(rows) : rows[k] = CountRow(d, j)})
               = Cardinality({i \in 1..Len(d.rooms) : CountRow(d, i) = CountRow(d, j)})
    /\ NonIncreasing(rows)

\* C17: for every store content task1 returns one (room name, count) row for
\* every Room row, the count being the number of Student rows whose room is
\* that room's id, 0 for a room without students, counts non-increasing.
C17_OneRowPerRoom == Returned("task1") => OneRowPerRoom(call.pre, call.rows)

\* task1 on rooms of pairwise distinct names: one row per room
C17_OneRowPerRoomOfDistinctNames ==
    (Returned("task1") /\ DistinctNames(call.pre)) => OneRowPerRoom(call.pre, call.rows)

\* at most 5 rows, each the (name, average age) of a room with a student,
\* average ascending, no room without students named, every room left out
\* at least as old on average as every room returned
YoungestRooms(d, rows, now) ==
    /\ Len(rows) <= TopN
    /\ \A k \in 1..Len(rows) :
           \E j \in Occupied(d) : rows[k] = <<d.rooms[j].name, AverageAge(d, j, now)>>
    /\ \A j \in 1..Len(d.rooms) : j \notin Occupied(d) => d.rooms[j].name \notin Names(rows)
    /\ NonDecreasing(rows)
    /\ \A j \in Occupied(d) :
           ~Has(rows, <<d.rooms[j].name, AverageAge(d, j, now)>>) =>
               \A k \in 1..Len(rows) : AverageAge(d, j, now) >= rows[k][2]

C18_YoungestRoomsOfDistinctNames ==
    (Returned("task2") /\ DistinctNames(call.pre)) =>
        /\ YoungestRooms(call.pre, call.rows, call.arg)
        /\ Len(call.rows) = Min(TopN, Cardinality(Occupied(call.pre)))

\* at most 5 rows, each the (name, spread) of a room with a student, spread
\* descending
WidestRooms(d, rows, now) ==
    /\ Len(rows) <= TopN
    /\ \A k \in 1..Len(rows) :
           \E j \in Occupied(d) : rows[k] = <<d.rooms[j].name, Spread(d, j, now)>>
    /\ NonIncreasing(rows)

Single(d) == {j \in 1..Len(d.rooms) : Cardinality(StudentsOf(d, d.rooms[j].id)) = 1}

\* C19: task3 returns at most 5 rows, only for rooms with at least one
\* student, the spread being oldest age minus youngest age, ordered by spread
\* descending; a room with exactly one student has spread 0 and is returned
\* whenever fewer than 5 rooms have a larger spread.
C19_WidestRooms ==
    Returned("task3") =>
        LET d == call.pre
            now == call.arg
        IN  /\ WidestRooms(d, call.rows, now)
            /\ \A j \in Single(d) :
                   /\ Spread(d, j, now) = 0
                   /\ Cardinality({i \in Occupied(d) : Spread(d, i, now) > 0}) < TopN =>
                          Has(call.rows, <<d.rooms[j].name, 0>>)

\* task3 on rooms of pairwise distinct names: the 5 widest rooms; a room of
\* one student has spread 0 and is returned when at most 5 rooms have students
C19_WidestRoomsOfDistinctNames ==
    (Returned("task3") /\ DistinctNames(call.pre)) =>
        LET d == call.pre
            now == call.arg
        IN  /\ WidestRooms(d, call.rows, now)
            /\ Len(call.rows) = Min(TopN, Cardinality(Occupied(d)))
            /\ \A j \in Occupied(d) :
                   ~Has(call.rows, <<d.rooms[j].name, Spread(d, j, now)>>) =>
                       \A k \in 1..Len(call.rows) : Spread(d, j, now) <= call.rows[k][2]
            /\ \A j \in Single(d) :
                   /\ Spread(d, j, now) = 0
                   /\ Cardinality(Occupied(d)) <= TopN => Has(call.rows, <<d.rooms[j].name, 0>>)

\* C20: a room appears in task4's result exactly when its students carry more
\* than one distinct sex label.
C20_MixedRooms ==
    Returned("task4") =>
        \A j \in 1..Len(call.pre.rooms) :
            Has(call.rows, <<call.pre.rooms[j].name>>) <=> Cardinality(SexLabels(call.pre, j)) > 1

\* task4 on rooms of pairwise distinct names: exactly the rooms of two sexes
C20_MixedRoomsOfDistinctNames ==
    (Returned("task4") /\ DistinctNames(call.pre)) =>
        /\ \A j \in 1..Len(call.pre.rooms) :
               Has(call.rows, <<call.pre.rooms[j].name>>)
                   <=> Cardinality(SexLabels(call.pre, j)) > 1
        /\ Len(call.rows) = Cardinality(Names(call.rows))

(***************************************************************************)
(* Further properties of the manager (Spec)                                *)
(***************************************************************************)
\* the students whose room is the id of no Room row
Unmatched(d) == {k \in 1..Len(d.students) : d.students[k].room \notin Ids(d.rooms)}

\* the store without them
Matched(d) ==
    [d EXCEPT !.students = SelectSeq(d.students, LAMBDA s : s.room \in Ids(d.rooms))]

\* the batch with every room value replaced
Rehoused(batch, room) == [k \in 1..Len(batch) |-> [batch[k] EXCEPT !.room = room]]

\* the room values play no part in what insert_students does with a batch
RoomIsNotChecked ==
    call.op = "insert_students" =>
        \A room \in {1, 2} :
            LET r == insert_students(call.pre, Rehoused(call.arg, room), call.fault)
            IN  /\ r.outcome = call.outcome
                /\ call.outcome = "ok" => db.students = call.pre.students \o call.arg

\* C21 as stated: a student whose room matches no Room.id is inserted like
\* any other, is left out of task3, and contributes to the results of the
\* left-join queries task1, task2 and task4.
C21_UnmatchedStudentInLeftJoins ==
    /\ RoomIsNotChecked
    /\ Returned("task3") => call.rows = Task3Rows(Matched(call.pre), call.arg)
    /\ (Returned("task1") /\ Unmatched(call.pre) # {}) =>
           call.rows # Task1Rows(Matched(call.pre))
    /\ (Returned("task2") /\ Unmatched(call.pre) # {}) =>
           call.rows # Task2Rows(Matched(call.pre), call.arg)
    /\ (Returned("task4") /\ Unmatched(call.pre) # {}) =>
           call.rows # Task4Rows(Matched(call.pre))

\* C21, amended: a student whose room matches no Room.id is inserted like any
\* other and contributes to none of the four results: each query returns
\* what it returns on the store without such students.
C21_UnmatchedStudentInNoResult ==
    /\ RoomIsNotChecked
    /\ Returned("task1") => call.rows = Task1Rows(Matched(call.pre))
    /\ Returned("task2") => call.rows = Task2Rows(Matched(call.pre), call.arg)
    /\ Returned("task3") => call.rows = Task3Rows(Matched(call.pre), call.arg)
    /\ Returned("task4") => call.rows = Task4Rows(Matched(call.pre))

\* task1 ran on a room and a student of another, missing room: the room is
\* reported with no student
C21_Witness ==
    /\ Returned("task1")
    /\ call.pre.rooms = <<Room(2, "A")>>
    /\ call.pre.students = <<Student(1, "Frank", 0, "M", 1)>>
    /\ call.rows = <<<<"A", 0>>>>

(***************************************************************************)
(* Further properties of main (SpecMain)                                   *)
(***************************************************************************)
\* C22: a run that is Done with the cleanup flag set leaves both tables empty
\* and no secondary index; a run that is Done without it leaves the Rooms
\* table equal to the rooms input, the Students table equal to the students
\* input, and both indexes.
C22_StoreAtDone ==
    run.pc = "Done" =>
        /\ ~db.inTx
        /\ View(db) = Committed(db)
        /\ run.dbc = "y" => Committed(db) = EmptyContent
        /\ run.dbc = "n" =>
               Committed(db) = Content(run.roomsFile.rows, run.studentsFile.rows, IndexNames)

\* a run without the cleanup flag is Done and has left two rooms, students
\* and both indexes
C22_Witness ==
    /\ run.pc = "Done"
    /\ run.dbc = "n"
    /\ Len(db.rooms) = 2
    /\ db.students # <<>>
    /\ db.indexes = IndexNames

(***************************************************************************)
(* A run of main on what an earlier run has left (SpecRerun)               *)
(***************************************************************************)
\* what an earlier run leaves in the store: nothing (it cleaned up), its rows
\* and indexes (it did not), or what it had committed when it halted at
\* InsertStudents or at CreateIndexes
LeftContents ==
    {EmptyContent,
     Content(<<Room(1, "A"), Room(2, "A")>>, <<Student(1, "Frank", 0, "M", 1)>>, IndexNames),
     Content(<<Room(1, "A")>>, <<>>, {}),
     Content(<<Room(2, "A")>>, <<Student(1, "Grace", 762, "F", 1)>>, {})}

\* valid input files: rows of storable, pairwise distinct ids
ValidFiles(S) == {File("data", rows) : rows \in Insertable(S) \ {<<>>}}

InitRerun ==
    /\ \E c \in LeftContents : db = Store(c)
    /\ idIsRowid \in BOOLEAN
    /\ call = NoCall
    /\ \E rf \in ValidFiles(RoomRows), sf \in ValidFiles(StudentRows), dbc \in {"y", "n"} :
           run = StartRun(rf, sf, "json", dbc)

SpecRerun == InitRerun /\ [][NextMain]_vars

Completed(stage) == Occurrences(run.completed, stage) = 1

\* C23: whatever an earlier run has left, a run with valid inputs of pairwise
\* distinct ids comes to its insert stages with both tables empty and no
\* index, so that neither insert meets a duplicate key (each succeeds when
\* the store answers), and from the end of its CreateIndexes stage to its
\* final clear the store holds the run's inputs and both indexes, nothing
\* else.
C23_CleanSlate ==
    /\ run.pc = "InsertRooms" =>
           /\ ~db.inTx
           /\ View(db) = EmptyContent
           /\ Committed(db) = EmptyContent
           /\ ~HasDuplicate(db.rooms, run.rooms)
           /\ insert_rooms(db, run.rooms, 0).outcome = "ok"
    /\ run.pc = "InsertStudents" =>
           /\ ~db.inTx
           /\ db.rooms = run.rooms
           /\ db.students = <<>>
           /\ ~HasDuplicate(db.students, run.students)
           /\ insert_students(db, run.students, 0).outcome = "ok"
    /\ (Completed("CreateIndexes") /\ Occurrences(run.started, "FinalClear") = 0) =>
           /\ View(db) = Committed(db)
           /\ Committed(db) = Content(run.roomsFile.rows, run.studentsFile.rows, IndexNames)

\* the earlier run had left a room and a student with the ids of this run's
\* inputs; this run has created its indexes
C23_Witness ==
    /\ Completed("CreateIndexes")
    /\ run.pc = "Task1"
    /\ run.roomsFile.rows = <<Room(1, "B")>>
    /\ run.studentsFile.rows = <<Student(1, "Grace", 762, "F", 1)>>
    /\ Committed(db) = Content(<<Room(1, "B")>>, <<Student(1, "Grace", 762, "F", 1)>>, IndexNames)

ReadOnlyCall ==
    \/ call.op \in {"task1", "task2", "task3", "task4"}
    \/ call.op = "fetch_all" /\ call.arg.kind = "select"

C26_FailedInsertKeepsRooms ==
    run.failed = "InsertStudents" =>
        /\ run.pc = "Halted"
        /\ Completed("InsertRooms")
        /\ ~db.inTx
        /\ View(db) = Committed(db)
        /\ Committed(db) = Content(run.roomsFile.rows, <<>>, {})
        /\ Occurrences(run.started, "ClearStore") = 1
        /\ Occurrences(run.started, "FinalClear") = 0
        /\ run.started[Len(run.started)] = "InsertStudents"

\* a run with the cleanup flag set halted on students of one id, after one of
\* them was inserted: its two rooms are in the store
C26_Witness ==
    /\ run.failed = "InsertStudents"
    /\ run.dbc = "y"
    /\ Len(run.students) = 2
    /\ run.students[1].id = run.students[2].id
    /\ Len(Committed(db).rooms) = 2
    /\ Committed(db).students = <<>>

(***************************************************************************)
(* Transaction boundaries of the manager (Spec)                            *)
(***************************************************************************)
\* C27: after any manager operation has returned or raised, for any argument
\* the caller can pass, no transaction is open on the connection, so that no
\* operation fails at its BEGIN on an open transaction and none sees
\* uncommitted rows of an earlier call.
C27_TransactionsBalanced ==
    call.op # "none" =>
        /\ ~db.inTx
        /\ View(db) = Committed(db)
        /\ ~call.pre.inTx
        /\ (call.failedAt = 1 => call.fault = 1)

\* what holds: an operation that returns, or raises an sqlite3.Error, leaves
\* no transaction open and no uncommitted row
C27_BalancedAfterReturnOrSqliteError ==
    (call.op # "none" /\ call.outcome \in {"ok", "Error"}) =>
        /\ ~db.inTx
        /\ View(db) = Committed(db)

(***************************************************************************)
(* The final clear of main (SpecMain)                                      *)
(***************************************************************************)
\* C28: the final clear is started only with the cleanup flag set and after
\* every earlier stage, the four outputs included, has completed; a run with
\* the flag set that fails to write an output halts with its rows and both
\* indexes in the store; a failing final clear leaves the artifacts written
\* and the result lines printed as they were.
C28_FinalClearOnlyAfterSuccess ==
    /\ [](/\ Occurrences(run.started, "FinalClear") > 0 =>
                /\ run.dbc = "y"
                /\ Occurrences(run.started, "FinalClear") = 1
                /\ \A k \in 1..Len(StageOrder("n")) : Completed(StageOrder("n")[k])
                /\ Len(run.paths) = 4
          /\ \A k \in 1..4 :
                 (run.failed = OutputStages[k] /\ run.dbc = "y") =>
                     /\ run.pc = "Halted"
                     /\ Occurrences(run.started, "FinalClear") = 0
                     /\ Committed(db) =
                            Content(run.roomsFile.rows, run.studentsFile.rows, IndexNames)
          /\ run.failed = "FinalClear" =>
                 /\ run.pc = "Halted"
                 /\ Len(run.paths) = 4
                 /\ \A j \in 1..Len(run.written) :
                        Artifact(run.written[j], run.format, run.results[run.written[j]])
                            \in run.files
                 /\ SubSeq(run.printed, 1, 4) = [j \in 1..4 |-> ReportLine(j, run.paths[j])]
                 /\ run.printed[5] = "Failed to clear the database.")
    /\ [][run.pc = "FinalClear" =>
              /\ run'.files = run.files
              /\ run'.written = run.written
              /\ run'.paths = run.paths
              /\ SubSeq(run'.printed, 1, Len(run.printed)) = run.printed]_vars

\* with the cleanup flag set the third output could not be written: the run
\* halted with its rows and indexes in the store
C28_Witness ==
    /\ run.failed = "Out3"
    /\ run.dbc = "y"
    /\ run.pc = "Halted"
    /\ run.written # <<>>
    /\ Committed(db).rooms # <<>>
    /\ Committed(db).students # <<>>
    /\ Committed(db).indexes = IndexNames

(***************************************************************************)
(* Termination of main (SpecMainLive)                                      *)
(***************************************************************************)
\* the runs whose end is checked: an unreadable, an empty or a valid rooms
\* file; an unreadable or empty students file, a valid one, or one with an
\* id twice
LiveFiles(batches) ==
    {File("unreadable", <<>>), File("empty", <<>>)} \cup {File("data", rows) : rows \in batches}

InitMainLive ==
    /\ \E c \in PriorContents : db = Store(c)
    /\ idIsRowid \in BOOLEAN
    /\ call = NoCall
    /\ \E rf \in LiveFiles({<<Room(1, "A"), Room(2, "A")>>}),
          sf \in LiveFiles({<<Student(1, "Frank", 0, "M", 1), Student(2, "Grace", 762, "F", 1)>>,
                            <<Student(1, "Frank", 0, "M", 1), Student(1, "Grace", 762, "F", 1)>>}),
          format \in {"xml", "json"}, dbc \in {"y", "n"} :
            run = StartRun(rf, sf, format, dbc)

\* main is straight-line, synchronous code: when the call of a stage has
\* returned or raised, the next statement of main runs
SpecMainLive == InitMainLive /\ [][NextMain]_vars /\ WF_vars(NextMain)

\* no stage is started twice, and every step of the run starts one more stage
OneStagePerStep ==
    /\ [](\A k \in 1..Len(run.started) : Occurrences(run.started, run.started[k]) = 1)
    /\ [](Len(run.started) <= Len(StageOrder("y")) + 1)
    /\ [][Len(run'.started) = Len(run.started) + 1]_vars

SpreadBirthdays == {200, 488, 962}

\* two rooms and two students, in one room or in two
SpreadContents ==
    {Content(<<Room(1, "A"), Room(2, "B")>>,
             <<Student(1, "Frank", b1, "M", 1), Student(2, "Grace", b2, "F", r)>>,
             IndexNames) :
        b1 \in SpreadBirthdays, b2 \in SpreadBirthdays, r \in {1, 2}}

InitSpread ==
    /\ db \in {Store(c) : c \in SpreadContents}
    /\ idIsRowid \in BOOLEAN
    /\ call = NoCall
    /\ run = RunIdle

SpecSpread == InitSpread /\ [][Task3]_vars

\* C30: for a fixed store content, task3 returns the same rooms with the same
\* spreads at whatever instant it runs: what a call has returned is what a
\* call at any other instant returns for the content the call was made on.
C30_SpreadIndependentOfInstant ==
    Returned("task3") => \A now \in Nows : Task3Rows(call.pre, now) = call.rows

\* what does hold: at every instant the same rooms are returned, and the
\* spread of a room differs by at most one thousandth of a year
C30_SpreadWithinOneThousandth ==
    Returned("task3") =>
        \A now \in Nows :
            /\ Len(Task3Rows(call.pre, now)) = Len(call.rows)
            /\ \A k \in 1..Len(call.rows) :
                   \E i \in 1..Len(call.rows) :
                       /\ Task3Rows(call.pre, now)[i][1] = call.rows[k][1]
                       /\ Task3Rows(call.pre, now)[i][2] - call.rows[k][2] \in {-1, 0, 1}

\* task3 has returned 0.789 for a room of two students born 288 days apart;
\* a day later the same call returns 0.788
C30_Witness ==
    /\ Returned("task3")
    /\ call.arg = 9500
    /\ call.rows = <<<<"A", 789>>>>
    /\ Task3Rows(call.pre, 9501) = <<<<"A", 788>>>>

(***************************************************************************)
(* The elements of task4's result (SpecTasks)                              *)
(***************************************************************************)
\* a Python value of a result list: a tuple of fields, or a string.  A tuple
\* of one string and that string are different values: ('A',) != 'A'
PyTuple(row) == [type |-> "tuple", items |-> row]

PyStr(s) == [type |-> "str", items |-> <<s>>]

\* result = cursor.fetchall(): a list of tuples, one per row
Fetched(rows) == [k \in 1..Len(rows) |-> PyTuple(rows[k])]

\* C31: task4 returns room names only: its result equals the sequence of the
\* names themselves (as test_task4 asserts), not a sequence of one-field rows.
C31_Task4ReturnsNames ==
    Returned("task4") =>
        Fetched(call.rows) = [k \in 1..Len(call.rows) |-> PyStr(call.rows[k][1])]

\* what does hold: every element is a row of one field, the name of a room
C31_Task4ReturnsOneFieldRows ==
    Returned("task4") =>
        \A k \in 1..Len(call.rows) :
            /\ Fetched(call.rows)[k].type = "tuple"
            /\ Len(call.rows[k]) = 1
            /\ \E j \in 1..Len(call.pre.rooms) : call.rows[k][1] = call.pre.rooms[j].name

\* as in test_task4: the first and the third room have students of both
\* sexes, the second has one student, and task4 has returned two rows
C31_Witness ==
    /\ Returned("task4")
    /\ DistinctNames(call.pre)
    /\ call.rows = <<<<"A">>, <<"C">>>>
    /\ Cardinality(StudentsOf(call.pre, call.pre.rooms[2].id)) = 1
    /\ Fetched(call.rows) # <<PyStr("A"), PyStr("C")>>

====
